---- MODULE Spec2Model ----
(***************************************************************************)
(* Session orchestrator, message buffer / compactor and tool-call parser   *)
(* of twin (src/twin/lib/session.py, src/twin/lib/tools.py).               *)
(*                                                                         *)
(* Text is modelled by its structure, not its characters: a content is a   *)
(* sequence of chunks separated by one newline; a chunk is a run of text   *)
(* with no sentence boundary inside, of a given length, that ends with one *)
(* of . ! ? or not.  Lengths, sentence splitting and the caps of the       *)
(* summarizer are computed on that structure as the code computes them.    *)
(***************************************************************************)
EXTENDS Integers, Sequences, FiniteSets, TLC

\* ------------------------------------------------------------------ bounds
MaxCalls == 5        \* backend calls started in one session
MaxToolCalls == 2    \* tool calls parsed from one reply
MaxCommands == 1     \* state-changing commands typed in one session

\* ------------------------------------------------------- program constants
protected == 6               \* messages protected from compaction
DefaultContextWindow == 32768
SummaryMaxChars == 1000      \* max_chars passed by the compactor
SummaryMaxItems == 6         \* max_items default of _summarize_text
SentenceCap == 200           \* a sentence longer than this is truncated
MinCtx == 512                \* smallest value /ctx accepts

NONE == -1                   \* an absent configuration key / Python None

\* ------------------------------------------------------------ text model
Chunk(n, t) == [len |-> n, term |-> t, ws |-> FALSE]
NL == [len |-> 1, term |-> FALSE, ws |-> TRUE]

RECURSIVE SumLen(_)
SumLen(cs) == IF cs = <<>> THEN 0 ELSE Head(cs).len + SumLen(Tail(cs))

\* len(content): the chunks plus one separator between neighbours
StrLen(c) == IF c = <<>> THEN 0 ELSE SumLen(c) + (Len(c) - 1)

\* the characters of one content as tokens (chunks and newlines)
RECURSIVE ContentTokens(_)
ContentTokens(c) ==
    IF c = <<>> THEN <<>>
    ELSE IF Len(c) = 1 THEN <<c[1]>>
    ELSE <<c[1], NL>> \o ContentTokens(Tail(c))

\* "\n".join(m.get('content', '') for m in msgs)
RECURSIVE JoinContents(_)
JoinContents(msgs) ==
    IF msgs = <<>> THEN <<>>
    ELSE IF Len(msgs) = 1 THEN ContentTokens(msgs[1].content)
    ELSE ContentTokens(msgs[1].content) \o <<NL>> \o JoinContents(Tail(msgs))

\* sum(len(m.get('content', '')) for m in messages)
RECURSIVE _estimate_char_count(_)
_estimate_char_count(msgs) ==
    IF msgs = <<>> THEN 0
    ELSE StrLen(Head(msgs).content) + _estimate_char_count(Tail(msgs))

\* re.split(r'(?<=[.!?])\s+', text) followed by strip() and the skip of
\* empty pieces.  cur: length of the piece so far without leading
\* whitespace, ws: whitespace seen since its last chunk, lastTerm: its last
\* chunk ends a sentence, inGap: inside a whitespace run that is a split.
RECURSIVE SplitSentences(_, _, _, _, _, _)
SplitSentences(toks, cur, ws, lastTerm, inGap, out) ==
    IF toks = <<>>
    THEN IF cur > 0 THEN Append(out, [len |-> cur, term |-> lastTerm]) ELSE out
    ELSE LET t == Head(toks) rest == Tail(toks) IN
         IF t.ws
         THEN IF inGap THEN SplitSentences(rest, 0, 0, FALSE, TRUE, out)
              ELSE IF cur > 0 /\ lastTerm /\ ws = 0
                   THEN SplitSentences(rest, 0, 0, FALSE, TRUE,
                                       Append(out, [len |-> cur, term |-> TRUE]))
                   ELSE SplitSentences(rest, cur, IF cur > 0 THEN ws + 1 ELSE 0,
                                       lastTerm, FALSE, out)
         ELSE SplitSentences(rest, IF cur > 0 THEN cur + ws + t.len ELSE t.len,
                             0, t.term, FALSE, out)

\* the bullet loop of _summarize_text: truncate, account, stop at the caps
RECURSIVE Bullets(_, _, _, _, _)
Bullets(sents, total, bullets, max_chars, max_items) ==
    IF sents = <<>> THEN bullets
    ELSE LET s == Head(sents)
             slen == IF s.len > SentenceCap THEN SentenceCap + 3 ELSE s.len
             sterm == IF s.len > SentenceCap THEN TRUE ELSE s.term
             candidate_len == total + slen + 3
         IN IF candidate_len > max_chars \/ Len(bullets) >= max_items
            THEN bullets
            ELSE Bullets(Tail(sents), candidate_len,
                         Append(bullets, Chunk(slen + 2, sterm)),
                         max_chars, max_items)

\* _summarize_text(text, max_chars, max_items): the bullets joined by
\* newlines.  The joined bullets are shorter than max_chars by the loop's
\* accounting, so summary[:max_chars] cuts nothing; a text without any
\* chunk has no sentence and no line, and summarizes to "".
_summarize_text(toks, max_chars, max_items) ==
    Bullets(SplitSentences(toks, 0, 0, FALSE, FALSE, <<>>), 0, <<>>,
            max_chars, max_items)


\* ------------------------------------------------------ message buffer
Msg(r, i, c) == [role |-> r, id |-> i, content |-> c]

SummaryHeader == Chunk(33, FALSE)   \* "Conversation so far (summarized):"

\* a slice that starts one element late
SubSeqAfter(s, k) == SubSeq(s, k + 1, Len(s))

\* s[k-1:], the slice from the k-th element on
SubSeqFrom(s, k) == SubSeq(s, k, Len(s))
Ids(msgs) == {msgs[i].id : i \in 1..Len(msgs)}

\* num_ctx = generation_params.get('num_ctx') or
\*           ollama_cfg.get('context_window', 32768)
CompactNumCtx(cfg) ==
    IF cfg.num_ctx # NONE /\ cfg.num_ctx # 0 THEN cfg.num_ctx
    ELSE IF cfg.context_window # NONE THEN cfg.context_window
    ELSE DefaultContextWindow

max_chars(cfg) == CompactNumCtx(cfg) * 4

\* a threshold at half of the budget
half_threshold(cfg) == max_chars(cfg) \div 2

compact_threshold(cfg) == (max_chars(cfg) * 7) \div 10

\* _maybe_compact_messages on one instance's fields.  Returns the fields
\* after the call, whether self.messages was rebound to a new list, and
\* the messages whose text was handed to the summarizer.
_maybe_compact_messages(msgs, static, rs, cfg, newId) ==
    LET unchanged == [messages |-> msgs, running_summary |-> rs,
                      rebuilt |-> FALSE, old |-> <<>>]
        static_len == Len(static)
    IN  IF _estimate_char_count(msgs) <= compact_threshold(cfg) THEN unchanged
        ELSE IF Len(msgs) <= static_len + protected THEN unchanged
        ELSE LET dynamic_messages == SubSeqFrom(msgs, static_len + 1)
                 n == Len(dynamic_messages)
                 old_messages == SubSeq(dynamic_messages, 1, n - protected)
                 recent_messages == SubSeqFrom(dynamic_messages, n - protected + 1)
                 summary_text == _summarize_text(JoinContents(old_messages),
                                                 SummaryMaxChars, SummaryMaxItems)
                 summary_message == Msg("system", newId,
                                        <<SummaryHeader>> \o summary_text)
             IN IF summary_text = <<>>
                THEN unchanged
                ELSE [messages |-> static \o <<summary_message>> \o recent_messages,
                      running_summary |-> summary_text,
                      rebuilt |-> TRUE, old |-> old_messages]


\* ------------------------------------------------------------- inputs
UserContents == {<<Chunk(60, TRUE)>>}
ReplyContents == {<<>>, <<Chunk(300, FALSE)>>}
ResumeContent == <<Chunk(58, TRUE), Chunk(40, FALSE)>>
SystemPrompt == <<Chunk(100, FALSE)>>
PriorSummary == <<Chunk(22, FALSE), Chunk(30, FALSE)>>
Models == {"m1", "m2"}
Modes == {"work", "personal"}
CtxArgs == {MinCtx}
InitialNumCtx == {120}

\* the tools of the registry and the calls a reply can be parsed into
Registered == {"bash", "improve_self"}
ToolNames == Registered \cup {"nosuchtool"}
ToolCall(t, a) == [tool |-> t, args |-> a]
ToolCalls == {ToolCall("bash", "ok"), ToolCall("bash", "badnames"),
              ToolCall("improve_self", "ok"), ToolCall("nosuchtool", "ok")}
CallLists == UNION {[1..n -> ToolCalls] : n \in 0..MaxToolCalls}
\* the replies of a long session: no call, an ordinary call, improve_self
SessionCallLists == {<<>>, <<ToolCall("bash", "ok")>>,
                     <<ToolCall("improve_self", "ok")>>}

\* ------------------------------------------------------------- state
Slots == {1, 2}      \* 1: the instance run() was called on (self)
                     \* 2: the instance a /reload handed to the loop

\* How the class of an instance relates to what `import session` gives:
\* "current":  it is session.SessionOrchestrator;
\* "renamed":  its module was loaded under another name (lib.session,
\*             __main__): `import session` loads a second module, and the
\*             SessionOrchestrator that run() names is the instance's class;
\* "reloaded": module session was executed again after the instance was
\*             built: the SessionOrchestrator that run() names is the new class.
Loadings == {"current", "renamed", "reloaded"}

VARIABLES
    pc,                      \* position of the main loop
    current,                 \* slot of the loop's variable `current`
    caller,                  \* slot whose _call_ollama is running
    callKind,                \* "first" | "followup"
    klass,                   \* klass[s]: how the class of instance s was loaded
    mode, agent, model, session_id, running_summary, tool_registry,
    messages, static_system_messages, session_metrics, session_data,
    shMessages, shStatic, shMetrics, shData,   \* the two slots hold the same object
    config, savedLog,
    user_message, response, tool_calls, tool_results, requires_restart,
    tool_results_text,
    nextId, calls, commands,
    \* history of the current turn and of the session
    bufAtCall, callOutcome, trace, builtInst, execLog, handed, appended,
    afterSwap,
    \* the threads: key listener, timer, and what the control thread has
    \* outstanding
    _esc_pressed,            \* the module's flag, set by the listener
    _keyboard_listener,      \* "none" | "alive"
    in_flight,               \* backend requests sent and not yet returned
    executing,               \* tool.execute calls entered and not yet left
    elapsed,                 \* seconds the timer thread has shown
    timer_thread,            \* "none" | "running" | "stopped" (stop_timer set)
    \* the tool-call parser on its own
    ppc,                     \* "idle" | "input" | "parsed"
    reply_text,              \* the reply handed to _parse_tool_calls
    parsed,                  \* what _parse_tool_calls returned
    \* the improve_self tool on its own
    ipc,                     \* position inside _improve_self
    repo,                    \* what git reports about the twin directory
    files,                   \* the `files` argument: the paths to write
    written,                 \* the paths written so far
    logged,                  \* the entry is in IMPROVEMENTS.md
    committed,               \* the git commit was made
    proposal,                \* what propose_improvement returned or raised
    improve_result,          \* the ToolResult of _improve_self
    \* a file tool or the context log on its own, and the environment
    fs,                      \* the files: path -> content, absent if missing
    tool_args,               \* the arguments of the call
    tool_result,             \* what the call returned
    DEBUG                    \* os.getenv('DEBUG') is set

instVars == <<mode, agent, model, session_id, running_summary, tool_registry,
              messages, static_system_messages, session_metrics, session_data,
              shMessages, shStatic, shMetrics, shData>>
turnVars == <<user_message, response, tool_calls, tool_results, requires_restart,
              tool_results_text>>
countVars == <<nextId, calls, commands>>
histVars == <<bufAtCall, callOutcome, trace, builtInst, execLog, handed, appended,
              afterSwap>>
parseVars == <<ppc, reply_text, parsed>>
improveVars == <<ipc, repo, files, written, logged, committed, proposal,
                 improve_result>>
toolVars == <<fs, tool_args, tool_result>>
sideVars == <<parseVars, improveVars, toolVars, DEBUG>>
threadVars == <<_esc_pressed, _keyboard_listener, in_flight, executing, elapsed,
                timer_thread>>
mainVars == <<pc, current, caller, callKind, klass, instVars, config, savedLog,
              turnVars, countVars, histVars, threadVars>>
vars == <<mainVars, sideVars>>

\* a mutation made in place through slot s reaches every slot that holds
\* the same object; a rebinding of the attribute reaches slot s only
Via(f, shared, s, v) == [i \in Slots |-> IF i = s \/ shared THEN v ELSE f[i]]
Rebind(f, s, v) == [f EXCEPT ![s] = v]

NoResponse == [none |-> TRUE, content |-> <<>>]
Reply(c) == [none |-> FALSE, content |-> c]
Truthy(r) == ~r.none /\ r.content # <<>>     \* `if response:`

FreshSessionData(sid, m, a) ==
    [session_id |-> sid, mode |-> m, agent |-> a, model |-> "",
     planning |-> 0, reasoning |-> <<>>]
FreshMetrics == [queries |-> 0, responses |-> 0]
NoSnapshot == [messages |-> <<>>, static |-> <<>>, running_summary |-> <<>>]

\* SessionOrchestrator.__init__
__init__(m, a, mdl, uuid, registry) ==
    [mode |-> m, agent |-> a, model |-> mdl, session_id |-> uuid,
     session_data |-> FreshSessionData(uuid, m, a),
     messages |-> <<>>, static_system_messages |-> <<>>,
     running_summary |-> <<>>, tool_registry |-> registry,
     session_metrics |-> FreshMetrics]

Instance(s) ==
    [mode |-> mode[s], agent |-> agent[s], model |-> model[s],
     session_id |-> session_id[s], session_data |-> session_data[s],
     messages |-> messages[s],
     static_system_messages |-> static_system_messages[s],
     running_summary |-> running_summary[s],
     tool_registry |-> tool_registry[s],
     session_metrics |-> session_metrics[s]]

\* a migration that forgets the message buffer
RestoreStateNoBuffer(new_instance, state) ==
    [new_instance EXCEPT
        !.session_id = state.session_id,
        !.session_data = state.session_data,
        !.static_system_messages = state.static_system_messages,
        !.running_summary = state.running_summary,
        !.tool_registry = state.tool_registry,
        !.session_metrics = state.session_metrics]

\* a migration that forgets the static messages
RestoreStateNoStatic(new_instance, state) ==
    [new_instance EXCEPT
        !.session_id = state.session_id,
        !.session_data = state.session_data,
        !.messages = state.messages,
        !.running_summary = state.running_summary,
        !.tool_registry = state.tool_registry,
        !.session_metrics = state.session_metrics]

\* the "Restore state" assignments of _reload_modules
RestoreState(new_instance, state) ==
    [new_instance EXCEPT
        !.session_id = state.session_id,
        !.session_data = state.session_data,
        !.messages = state.messages,
        !.static_system_messages = state.static_system_messages,
        !.running_summary = state.running_summary,
        !.tool_registry = state.tool_registry,
        !.session_metrics = state.session_metrics]

Blank == __init__("personal", "agent", "m1", 0, 0)

\* the messages of turns that went through: turn i is a pair of the user
\* content and the reply content, appended by _call_ollama
RECURSIVE History(_, _)
History(turns, i) ==
    IF i > Len(turns) THEN <<>>
    ELSE <<Msg("user", 2 * i + 1, turns[i][1]),
           Msg("assistant", 2 * i + 2, turns[i][2])>> \o History(turns, i + 1)

\* entries of planning_discussion after these turns: the input of each
\* turn, and its reply if it was shown (`if response:`)
RECURSIVE Tracked(_)
Tracked(turns) ==
    IF turns = <<>> THEN 0
    ELSE (IF Head(turns)[2] # <<>> THEN 2 ELSE 1) + Tracked(Tail(turns))

\* the session at the prompt after run() has seeded the buffers and the
\* given tool-free turns went through, under one of the configurations
InitConfigured(turns, configs) ==
    /\ pc = "prompt" /\ current = 1 /\ caller = 1 /\ callKind = "first"
    /\ klass \in {[s \in Slots |-> IF s = 1 THEN k ELSE "current"] : k \in Loadings}
    /\ \E m \in {"personal"}, prior \in {FALSE} :
          LET seed == <<Msg("system", 1, SystemPrompt)>> \o
                      (IF prior THEN <<Msg("system", 2, PriorSummary)>>
                       ELSE <<>>)
              me == __init__(m, "agent", "m1", 1, 1)
          IN /\ mode = [s \in Slots |-> IF s = 1 THEN m ELSE Blank.mode]
             /\ session_data =
                   [s \in Slots |->
                       IF s = 1 THEN [me.session_data EXCEPT
                                         !.planning = Tracked(turns)]
                       ELSE Blank.session_data]
             /\ static_system_messages = [s \in Slots |-> IF s = 1 THEN seed ELSE <<>>]
             /\ messages = [s \in Slots |-> IF s = 1 THEN seed \o History(turns, 1)
                                             ELSE <<>>]
    /\ agent = [s \in Slots |-> "agent"]
    /\ model = [s \in Slots |-> "m1"]
    /\ session_id = [s \in Slots |-> IF s = 1 THEN 1 ELSE 0]
    /\ running_summary = [s \in Slots |-> <<>>]
    /\ tool_registry = [s \in Slots |-> IF s = 1 THEN 1 ELSE 0]
    /\ session_metrics =
          [s \in Slots |-> IF s = 1 THEN [queries |-> Len(turns),
                                          responses |-> Len(turns)]
                           ELSE FreshMetrics]
    /\ shMessages = FALSE /\ shStatic = FALSE /\ shMetrics = FALSE /\ shData = FALSE
    /\ config \in configs
    /\ savedLog = <<>>
    /\ user_message = Msg("user", 0, <<>>) /\ response = NoResponse
    /\ tool_calls = <<>> /\ tool_results = <<>> /\ requires_restart = FALSE
    /\ tool_results_text = <<>>
    /\ nextId = 3 + 2 * Len(turns) /\ calls = 0 /\ commands = 0
    /\ bufAtCall = NoSnapshot /\ callOutcome = "none" /\ trace = <<>>
    /\ builtInst = "none" /\ execLog = <<>> /\ handed = {}
    /\ appended = Ids(History(turns, 1))
    /\ afterSwap = {}
    /\ _esc_pressed = FALSE /\ _keyboard_listener = "none"
    /\ in_flight = 0 /\ executing = 0 /\ elapsed = 0 /\ timer_thread = "none"

\* the same under the configuration of the tests: generation_params.num_ctx
\* set, no ollama.context_window
InitAfter(turns) ==
    InitConfigured(turns, {[num_ctx |-> n, context_window |-> NONE] :
                              n \in InitialNumCtx})

\* the session right after run() has seeded the buffers
InitMain == InitAfter(<<>>)

\* the parser and the improve_self tool are not running
IdleParse == ppc = "idle" /\ reply_text = <<>> /\ parsed = <<>>
NoProposal == [raised |-> "none", type |-> "none"]
NoResult == [success |-> FALSE, output |-> "none", error |-> "none",
             metadata |-> [requires_restart |-> FALSE]]
IdleImprove ==
    /\ ipc = "idle" /\ repo = "clean" /\ files = {} /\ written = {}
    /\ logged = FALSE /\ committed = FALSE
    /\ proposal = NoProposal /\ improve_result = NoResult

NoArgs == [tool |-> "none"]
IdleTool == fs = <<>> /\ tool_args = NoArgs /\ tool_result = NoResult

Init == InitMain /\ IdleParse /\ IdleImprove /\ IdleTool /\ DEBUG = FALSE


\* ------------------------------------------------------------ helpers
Ev(e, i) == [ev |-> e, i |-> i]

\* _save_session: the record handed to context_manager.append_session
SavedData(s) ==
    IF running_summary[s] # <<>>
    THEN [session_data[s] EXCEPT
            !.reasoning = <<Chunk(16, FALSE)>> \o running_summary[s]]
    ELSE session_data[s]

\* which attributes of the new instance are the old instance's objects
Probe ==
    RestoreState(
        [mode |-> "new", agent |-> "new", model |-> "new", session_id |-> "new",
         session_data |-> "new", messages |-> "new",
         static_system_messages |-> "new", running_summary |-> "new",
         tool_registry |-> "new", session_metrics |-> "new"],
        [mode |-> "old", agent |-> "old", model |-> "old", session_id |-> "old",
         session_data |-> "old", messages |-> "old",
         static_system_messages |-> "old", running_summary |-> "old",
         tool_registry |-> "old", session_metrics |-> "old"])

\* Objects are named up to renaming: the instance run() was called on is
\* 1, the instance the loop got from /reload is 2; a new tool registry gets
\* the least name no slot holds.
FreshRegistry ==
    CHOOSE n \in 1..3 : /\ n \notin {tool_registry[t] : t \in Slots}
                        /\ \A m \in 1..(n - 1) : m \in {tool_registry[t] : t \in Slots}

\* a reload that hands over a new instance whenever the class differs,
\* whether the constructor and the migration went through or not
ConstructsAnyway(s, built) == klass[s] # "current"

\* `NewOrchestrator is self.__class__` fails and the constructor and the
\* migration go through (built)
Constructs(s, built) == klass[s] # "current" /\ built

\* isinstance(result, SessionOrchestrator) in run(), for an instance that
\* _reload_modules constructed
isinstance_SessionOrchestrator == klass[1] = "reloaded"

\* _reload_modules on slot s.  rebuilt: a module was reloaded and the tool
\* registry reinitialized; taken: the caller puts the constructed instance
\* in `current` (run() does after /reload if isinstance holds,
\* _handle_restart never does).
_reload_modules(s, rebuilt, built, taken) ==
    LET reg1 == IF rebuilt THEN FreshRegistry ELSE tool_registry[s]
        state == [Instance(s) EXCEPT !.tool_registry = reg1]
        new_instance ==
            RestoreState(__init__(mode[s], agent[s], model[s], 2, 0), state)
        swap == Constructs(s, built) /\ taken
        Put(f, v) == IF swap THEN [f EXCEPT ![2] = v] ELSE f
    IN  /\ tool_registry' = Put(Rebind(tool_registry, s, reg1),
                                new_instance.tool_registry)
        /\ mode' = Put(mode, new_instance.mode)
        /\ agent' = Put(agent, new_instance.agent)
        /\ model' = Put(model, new_instance.model)
        /\ session_id' = Put(session_id, new_instance.session_id)
        /\ running_summary' = Put(running_summary, new_instance.running_summary)
        /\ messages' = Put(messages, new_instance.messages)
        /\ static_system_messages' =
              Put(static_system_messages, new_instance.static_system_messages)
        /\ session_metrics' = Put(session_metrics, new_instance.session_metrics)
        /\ session_data' = Put(session_data, new_instance.session_data)
        /\ shMessages' = IF swap THEN Probe.messages = "old" ELSE shMessages
        /\ shStatic' = IF swap THEN Probe.static_system_messages = "old" ELSE shStatic
        /\ shMetrics' = IF swap THEN Probe.session_metrics = "old" ELSE shMetrics
        /\ shData' = IF swap THEN Probe.session_data = "old" ELSE shData
        /\ current' = IF swap THEN 2 ELSE current

\* groups of variables an action leaves alone
idVars == <<mode, agent, model, session_id, tool_registry>>
bufVars == <<messages, static_system_messages, running_summary, shMessages,
             shStatic>>
metricVars == <<session_metrics, shMetrics>>
loopVars == <<current, caller, callKind, klass, sideVars>>
turnHist == <<bufAtCall, callOutcome, trace, builtInst, execLog>>
sessionHist == <<handed, appended, afterSwap>>

\* ----------------------------------------------------------- commands
\* /mode work|personal
CmdMode(v) ==
    /\ pc = "prompt" /\ commands < MaxCommands /\ v # mode[current]
    /\ commands' = commands + 1
    /\ mode' = Rebind(mode, current, v)
    /\ session_data' = Via(session_data, shData, current,
                           [session_data[current] EXCEPT !.mode = v])
    /\ UNCHANGED <<pc, loopVars, threadVars, agent, model, session_id, tool_registry, bufVars,
                   metricVars, shData, config, savedLog, turnVars, nextId,
                   calls, turnHist, sessionHist>>

\* /model <name>, for a name the backend has installed
CmdModel(v) ==
    /\ pc = "prompt" /\ commands < MaxCommands /\ v # model[current]
    /\ commands' = commands + 1
    /\ model' = Rebind(model, current, v)
    /\ session_data' = Via(session_data, shData, current,
                           [session_data[current] EXCEPT !.model = v])
    /\ UNCHANGED <<pc, loopVars, threadVars, mode, agent, session_id, tool_registry, bufVars,
                   metricVars, shData, config, savedLog, turnVars, nextId,
                   calls, turnHist, sessionHist>>

\* /ctx <num_ctx>, num_ctx >= 512
CmdCtx(n) ==
    /\ pc = "prompt" /\ commands < MaxCommands
    /\ n >= MinCtx /\ config.num_ctx # n
    /\ commands' = commands + 1
    /\ config' = [config EXCEPT !.num_ctx = n]
    /\ UNCHANGED <<pc, loopVars, threadVars, instVars, savedLog, turnVars, nextId,
                   calls, turnHist, sessionHist>>

\* context_manager.get_session_by_index(cwd, index): whether it returns a
\* session or None
get_session_by_index == BOOLEAN

\* /sessions resume <index>: _resume_session; found: the context manager
\* has a session at that index
CmdResume(found) ==
    /\ pc = "prompt" /\ commands < MaxCommands
    /\ commands' = commands + 1
    /\ IF found
       THEN LET resume_message == Msg("system", nextId, ResumeContent) IN
            /\ static_system_messages' =
                  Via(static_system_messages, shStatic, current,
                      Append(static_system_messages[current], resume_message))
            /\ messages' = Via(messages, shMessages, current,
                               Append(messages[current], resume_message))
            /\ running_summary' = Rebind(running_summary, current, ResumeContent)
            /\ session_data' =
                  Via(session_data, shData, current,
                      [session_data[current] EXCEPT
                          !.reasoning = ResumeContent, !.planning = @ + 1])
            /\ nextId' = nextId + 1
       ELSE UNCHANGED <<static_system_messages, messages, running_summary,
                        session_data, nextId>>
    /\ UNCHANGED <<pc, loopVars, threadVars, idVars, shMessages, shStatic, metricVars, shData,
                   config, savedLog, turnVars, calls, turnHist,
                   sessionHist>>

\* /save
CmdSave ==
    /\ pc = "prompt" /\ commands < MaxCommands
    /\ commands' = commands + 1
    /\ session_data' = Via(session_data, shData, current, SavedData(current))
    /\ savedLog' = Append(savedLog, SavedData(current))
    /\ UNCHANGED <<pc, loopVars, threadVars, idVars, bufVars, metricVars, shData, config,
                   turnVars, nextId, calls, turnHist, sessionHist>>

\* /reload.  An instance that _handle_command returns replaces `current`
\* if isinstance(result, SessionOrchestrator); if not, the result is none
\* of 'exit', 'continue' or an instance, and run() goes on to treat the
\* command line as a plain input.
CmdReload(rebuilt, built) ==
    /\ pc = "prompt" /\ commands < MaxCommands
    /\ LET falls == Constructs(current, built) /\ ~isinstance_SessionOrchestrator
       IN /\ falls => calls < MaxCalls
          /\ pc' = IF falls THEN "fallthrough" ELSE pc
    /\ commands' = commands + 1
    /\ _reload_modules(current, rebuilt, built, isinstance_SessionOrchestrator)
    /\ UNCHANGED <<caller, callKind, klass, sideVars, threadVars, config, savedLog, turnVars,
                   nextId, calls, turnHist, sessionHist>>

\* the command line is tracked and sent like any input
FallThrough(text) ==
    /\ pc = "fallthrough"
    /\ session_data' = Via(session_data, shData, current,
                           [session_data[current] EXCEPT !.planning = @ + 1])
    /\ user_message' = Msg("user", 0, text)
    /\ caller' = current /\ callKind' = "first" /\ pc' = "call"
    /\ UNCHANGED <<current, klass, sideVars, threadVars, idVars, bufVars, metricVars, shData,
                   config, savedLog, response, tool_calls, tool_results,
                   requires_restart, tool_results_text, countVars, histVars>>

\* /bye, /exit, /quit
CmdBye ==
    /\ pc = "prompt"
    /\ session_data' = Via(session_data, shData, current, SavedData(current))
    /\ savedLog' = Append(savedLog, SavedData(current))
    /\ pc' = "exited"
    /\ UNCHANGED <<loopVars, threadVars, idVars, bufVars, metricVars, shData, config,
                   turnVars, countVars, histVars>>

\* ------------------------------------------------------------ a turn
\* run(): a plain input is tracked in current.session_data and sent with
\* current._call_ollama
UserTurn(text) ==
    /\ pc = "prompt" /\ calls < MaxCalls
    /\ session_data' = Via(session_data, shData, current,
                           [session_data[current] EXCEPT !.planning = @ + 1])
    /\ user_message' = Msg("user", 0, text)
    /\ caller' = current /\ callKind' = "first" /\ pc' = "call"
    /\ UNCHANGED <<current, klass, sideVars, threadVars, idVars, bufVars, metricVars, shData, config,
                   savedLog, response, tool_calls, tool_results,
                   requires_restart, tool_results_text, countVars, histVars>>

\* _call_ollama up to the backend request: compaction, then the request
CallStart ==
    /\ pc = "call"
    /\ LET k == caller
           r == _maybe_compact_messages(messages[k], static_system_messages[k],
                                        running_summary[k], config, nextId)
       IN /\ bufAtCall' = [messages |-> messages[k],
                           static |-> static_system_messages[k],
                           running_summary |-> running_summary[k]]
          /\ messages' = IF r.rebuilt THEN Rebind(messages, k, r.messages)
                         ELSE messages
          /\ shMessages' = IF r.rebuilt THEN FALSE ELSE shMessages
          /\ running_summary' = Rebind(running_summary, k, r.running_summary)
          /\ nextId' = IF r.rebuilt THEN nextId + 1 ELSE nextId
          /\ handed' = handed \cup Ids(r.old)
          /\ trace' = IF r.rebuilt THEN Append(trace, Ev("compact", k)) ELSE trace
    /\ calls' = calls + 1
    /\ callOutcome' = "none"
    /\ pc' = "inflight"
    \* _start_keyboard_listener(), _reset_esc_flag(), the timer thread, and
    \* the request of ollama.chat
    /\ _keyboard_listener' = "alive" /\ _esc_pressed' = FALSE
    /\ elapsed' = 0 /\ timer_thread' = "running" /\ in_flight' = in_flight + 1
    \* the calls, the results and their text are dead once the prompt is built
    /\ tool_calls' = <<>> /\ tool_results' = <<>> /\ tool_results_text' = <<>>
    /\ execLog' = <<>>
    /\ UNCHANGED <<loopVars, idVars, static_system_messages, shStatic, metricVars,
                   session_data, shData, config, savedLog, user_message,
                   response, requires_restart, commands,
                   builtInst, appended, afterSwap, executing>>

\* a loop that parses the follow-up reply as it parses the first
AfterCallParsingAgain(r, tcs) ==
    IF ~Truthy(r) THEN "turn_end"
    ELSE IF tcs = <<>> THEN (IF requires_restart THEN "restart" ELSE "display")
    ELSE "exec"

\* where run() goes once _call_ollama has returned r
AfterCall(r, tcs) ==
    IF callKind = "first"
    THEN IF ~Truthy(r) THEN "turn_end"
         ELSE IF tcs = <<>> THEN "display" ELSE "exec"
    ELSE IF requires_restart THEN "restart"
         ELSE IF Truthy(r) THEN "display" ELSE "turn_end"

\* metrics that count the query and record no response entry
TrackQueryOnly(m) == [m EXCEPT !.queries = @ + 1]

\* `# Track metrics` of _call_ollama: the query is counted and one entry
\* is appended to responses (kept as their number)
TrackMetrics(m) == [queries |-> m.queries + 1, responses |-> m.responses + 1]

\* the backend replies: metrics, then the two appends to self.messages;
\* run() parses the first reply of a turn into tool calls.  tcs: the calls
\* the reply contains; those of a follow-up reply are left in its text
CallOk(reply, tcs) ==
    /\ pc = "inflight"
    /\ reply = <<>> => tcs = <<>>
    /\ (callKind = "first" /\ tcs # <<>>) => calls < MaxCalls
                                     \* the follow-up call is within the bound
    /\ LET k == caller
           um == [user_message EXCEPT !.id = nextId]
           am == Msg("assistant", nextId + 1, reply)
       IN /\ session_metrics' =
                Via(session_metrics, shMetrics, k,
                    TrackMetrics(session_metrics[k]))
          /\ messages' = Via(messages, shMessages, k, messages[k] \o <<um, am>>)
          /\ appended' = appended \cup {nextId, nextId + 1}
          /\ afterSwap' = IF current = 2
                          THEN afterSwap \cup {nextId, nextId + 1} ELSE afterSwap
    /\ nextId' = nextId + 2
    /\ response' = Reply(reply)
    /\ tool_calls' = IF callKind = "first" THEN tcs ELSE tool_calls
    /\ callOutcome' = "ok"
    /\ trace' = IF callKind = "followup" /\ tcs # <<>>
                THEN Append(trace, Ev("unparsed", caller)) ELSE trace
    /\ pc' = AfterCall(Reply(reply), tcs)
    /\ in_flight' = in_flight - 1 /\ timer_thread' = "stopped"
    /\ UNCHANGED <<loopVars, idVars, static_system_messages, running_summary,
                   shMessages, shStatic, shMetrics, session_data, shData, config,
                   savedLog, user_message, tool_results, requires_restart,
                   tool_results_text, calls, commands, bufAtCall,
                   builtInst, execLog, handed,
                   _esc_pressed, _keyboard_listener, executing, elapsed>>

\* the backend call raises (not found, timeout, decode error): None
CallFail ==
    /\ pc = "inflight"
    /\ response' = NoResponse
    /\ callOutcome' = "failed"
    /\ pc' = AfterCall(NoResponse, <<>>)
    /\ in_flight' = in_flight - 1 /\ timer_thread' = "stopped"
    /\ UNCHANGED <<loopVars, instVars, config, savedLog, user_message, tool_calls,
                   tool_results, requires_restart, tool_results_text, countVars,
                   bufAtCall, trace, builtInst, execLog, sessionHist,
                   _esc_pressed, _keyboard_listener, executing, elapsed>>

\* ------------------------------------------------------ tool execution
ToolResult(ok, out, err, restart) ==
    [success |-> ok, output |-> out, error |-> err,
     metadata |-> [requires_restart |-> restart]]

\* what tool.execute(**args) may do: return a result that succeeded or
\* failed, or raise; arguments with the wrong names raise TypeError
ExceptionClasses == {"TypeError", "RuntimeError", "OSError"}
Outcomes(call) ==
    IF call.args = "badnames" THEN {"TypeError"}
    ELSE {"success", "failure", "RuntimeError"}

\* a handler that catches the errors of the tool body only
except_RuntimeError(exc) == exc = "RuntimeError"

\* `except Exception` around tool.execute
except_Exception(exc) == exc \in ExceptionClasses

\* results in which every tool that succeeds asks for a restart
ResultOfAnyTool(call, outcome) ==
    IF call.tool \notin Registered
    THEN ToolResult(FALSE, "none", "Unknown tool", FALSE)
    ELSE ToolResult(outcome = "success", "out", "none", outcome = "success")

\* the result _execute_tools appends for one call; only improve_self
\* puts requires_restart in its metadata (tools.py _improve_self)
ResultOf(call, outcome) ==
    IF call.tool \notin Registered
    THEN ToolResult(FALSE, "none", "Unknown tool", FALSE)
    ELSE IF outcome = "success"
    THEN ToolResult(TRUE, "out", "none", call.tool = "improve_self")
    ELSE IF outcome = "failure"
    THEN ToolResult(FALSE, "none", "failed", FALSE)
    ELSE ToolResult(FALSE, "none", outcome, FALSE)

\* a loop that takes the calls from the last to the first
NextCallFromEnd(done) == Len(tool_calls) - done

\* the index in tool_calls of the call the loop of _execute_tools takes
\* once `done` results are in
NextCall(done) == done + 1

Step(i, ran, raised) == [call |-> i, ran |-> ran, raised |-> raised]

\* the loop of self._execute_tools enters tool.execute(**args) of the
\* next call, a call of a registered tool
StartTool ==
    /\ pc = "exec" /\ Len(tool_results) < Len(tool_calls) /\ executing = 0
    /\ tool_calls[NextCall(Len(tool_results))].tool \in Registered
    /\ executing' = executing + 1
    /\ UNCHANGED <<pc, loopVars, instVars, config, savedLog, turnVars, countVars,
                   histVars, _esc_pressed, _keyboard_listener, in_flight,
                   elapsed, timer_thread>>

\* one iteration of the loop of self._execute_tools.  An exception the
\* handler does not catch leaves _execute_tools and reaches the
\* `except Exception` of run(), which prints it and goes on with the loop.
\* Console output is taken to succeed.
ExecTool(outcome) ==
    /\ pc = "exec" /\ Len(tool_results) < Len(tool_calls)
    /\ LET i == NextCall(Len(tool_results))
           call == tool_calls[i]
           known == call.tool \in Registered
           escapes == known /\ outcome \in ExceptionClasses
                            /\ ~except_Exception(outcome)
       IN /\ IF known THEN executing = 1 /\ outcome \in Outcomes(call)
                   ELSE outcome = "none"
          /\ executing' = 0
          /\ tool_results' = IF escapes THEN tool_results
                             ELSE Append(tool_results, ResultOf(call, outcome))
          /\ execLog' = Append(execLog,
                               Step(i, known, known /\ outcome \in ExceptionClasses))
          /\ pc' = IF escapes THEN "turn_end" ELSE pc
    /\ UNCHANGED <<loopVars, instVars, config, savedLog, user_message,
                   response, tool_calls, requires_restart, tool_results_text,
                   countVars, bufAtCall, callOutcome, trace, builtInst,
                   sessionHist, _esc_pressed, _keyboard_listener, in_flight,
                   elapsed, timer_thread>>

ToolOutcomes == {"none", "success", "failure"} \cup ExceptionClasses

_format_tool_results(results) ==
    [i \in 1..Len(results) |->
        [status |-> IF results[i].success THEN "success" ELSE "error",
         output |-> IF results[i].output # "none" THEN results[i].output
                    ELSE results[i].error]]

\* the follow-up prompt: two sentences around the formatted results
FollowupMessage(results) ==
    Msg("user", 0, <<Chunk(43, TRUE), Chunk(30 * Len(results) + 88, TRUE)>>)

\* _execute_tools has returned: restart flag, follow-up prompt, and the
\* follow-up call through self
ToolsDone ==
    /\ pc = "exec" /\ Len(tool_results) = Len(tool_calls)
    /\ requires_restart' =
          \E i \in 1..Len(tool_results) : tool_results[i].metadata.requires_restart
    /\ tool_results_text' = _format_tool_results(tool_results)
    /\ user_message' = FollowupMessage(tool_results)
    /\ caller' = 1 /\ callKind' = "followup" /\ pc' = "call"
    /\ UNCHANGED <<current, klass, sideVars, threadVars, instVars, config, savedLog, response,
                   tool_calls, tool_results, countVars, histVars>>

\* _handle_restart, first half: self._save_session()
RestartSave ==
    /\ pc = "restart"
    /\ session_data' = Via(session_data, shData, 1, SavedData(1))
    /\ savedLog' = Append(savedLog, SavedData(1))
    /\ trace' = Append(trace, Ev("save", 1))
    /\ pc' = "reloading"
    /\ UNCHANGED <<loopVars, threadVars, idVars, bufVars, metricVars, shData, config,
                   turnVars, countVars, bufAtCall, callOutcome, builtInst,
                   execLog, sessionHist>>

\* _handle_restart, second half: self._reload_modules(), result dropped
RestartReload(rebuilt, built) ==
    /\ pc = "reloading"
    /\ _reload_modules(1, rebuilt, built, FALSE)
    /\ builtInst' = IF Constructs(1, built) THEN "dropped" ELSE builtInst
    /\ trace' = Append(trace, Ev("reload", 1))
    /\ pc' = IF Truthy(response) THEN "display" ELSE "turn_end"
    /\ UNCHANGED <<caller, callKind, klass, sideVars, threadVars, config, savedLog, turnVars,
                   nextId, calls, commands, bufAtCall, callOutcome, execLog,
                   sessionHist>>

\* the final reply is shown and tracked in self.session_data
Display ==
    /\ pc = "display"
    /\ session_data' = Via(session_data, shData, 1,
                           [session_data[1] EXCEPT !.planning = @ + 1])
    /\ pc' = "turn_end"
    /\ UNCHANGED <<loopVars, threadVars, idVars, bufVars, metricVars, shData, config,
                   savedLog, turnVars, countVars, histVars>>

\* back to the top of `while True`: the locals of the turn are dead
LoopBack ==
    /\ pc = "turn_end"
    /\ pc' = "prompt"
    /\ user_message' = Msg("user", 0, <<>>) /\ response' = NoResponse
    /\ tool_calls' = <<>> /\ tool_results' = <<>> /\ requires_restart' = FALSE
    /\ tool_results_text' = <<>>
    /\ caller' = current /\ callKind' = "first"
    /\ bufAtCall' = NoSnapshot /\ callOutcome' = "none" /\ trace' = <<>>
    /\ builtInst' = "none" /\ execLog' = <<>>
    /\ UNCHANGED <<current, klass, sideVars, threadVars, instVars, config, savedLog, countVars,
                   sessionHist>>

Next ==
    \/ \E v \in Modes : CmdMode(v)
    \/ \E v \in Models : CmdModel(v)
    \/ \E n \in CtxArgs : CmdCtx(n)
    \/ \E found \in get_session_by_index : CmdResume(found)
    \/ CmdSave
    \/ \E rebuilt, built \in BOOLEAN : CmdReload(rebuilt, built)
    \/ \E text \in UserContents : FallThrough(text)
    \/ CmdBye
    \/ \E text \in UserContents : UserTurn(text)
    \/ CallStart
    \/ \E reply \in ReplyContents, tcs \in SessionCallLists : CallOk(reply, tcs)
    \/ CallFail
    \/ StartTool
    \/ \E outcome \in ToolOutcomes : ExecTool(outcome)
    \/ ToolsDone
    \/ RestartSave
    \/ \E rebuilt, built \in BOOLEAN : RestartReload(rebuilt, built)
    \/ Display
    \/ LoopBack

Spec == Init /\ [][Next]_vars


\* ----------------------------------------------- one turn with any calls
\* the tool loop over every list of calls a reply can be parsed into
NextTools ==
    \/ \E text \in UserContents : calls = 0 /\ UserTurn(text)
    \/ CallStart
    \/ \E reply \in ReplyContents, tcs \in CallLists : CallOk(reply, tcs)
    \/ CallFail
    \/ StartTool
    \/ \E outcome \in ToolOutcomes : ExecTool(outcome)
    \/ ToolsDone
    \/ RestartSave
    \/ \E rebuilt, built \in BOOLEAN : RestartReload(rebuilt, built)
    \/ Display
    \/ LoopBack

SpecTools == Init /\ [][NextTools]_vars

\* ------------------------------------------- a session without tool calls
NextSession ==
    \/ \E v \in Modes : CmdMode(v)
    \/ \E v \in Models : CmdModel(v)
    \/ \E n \in CtxArgs : CmdCtx(n)
    \/ \E found \in get_session_by_index : CmdResume(found)
    \/ CmdSave
    \/ \E rebuilt, built \in BOOLEAN : CmdReload(rebuilt, built)
    \/ \E text \in UserContents : FallThrough(text)
    \/ CmdBye
    \/ \E text \in UserContents : UserTurn(text)
    \/ CallStart
    \/ \E reply \in ReplyContents : CallOk(reply, <<>>)
    \/ CallFail
    \/ Display
    \/ LoopBack

SpecSession == Init /\ [][NextSession]_vars


\* ------------------------------------------------------ tool-call parser
\* A reply is a sequence of segments; the text of a segment is a sequence
\* of tokens cut where the pattern of _parse_tool_calls and the JSON
\* grammar look: the markers, the braces, and brace-free runs of text.
MaxSegments == 3

WellFormed == {"flat", "empty", "nested", "quoted"}
Malformed == {"unclosed", "junk", "bare"}
SegmentKinds == WellFormed \cup Malformed \cup {"prose", "block"}
Replies == UNION {[1..n -> SegmentKinds] : n \in 1..MaxSegments}

Tok(t) == [t |-> t, name |-> <<>>]
TC(name) == [t |-> "TC", name |-> name]       \* TOOL_CALL: <name>\n
AR == Tok("AR")                               \* ARGS:
LB == Tok("LB")                               \* {
RB == Tok("RB")                               \* }
KV == Tok("KV")                               \* "key": "value"
KEY == Tok("KEY")                             \* "files":
QOPEN == Tok("QOPEN")                         \* "content": "x
QCLOSE == Tok("QCLOSE")                       \* y"
COMMA == Tok("COMMA")
JUNK == Tok("JUNK")                           \* not-json-here
TEXT == Tok("TEXT")                           \* prose
FENCE == Tok("FENCE")                         \* ```
ARR == Tok("ARR")                             \* "tool_calls": [
ARREND == Tok("ARREND")                       \* ]
NAME(name) == [t |-> "NAME", name |-> name]   \* "name": "<name>", "args":

\* the JSON text of the arguments of a pair of each kind
ArgsText(kind) ==
    CASE kind = "flat" -> <<LB, KV, RB>>
      [] kind = "empty" -> <<LB, RB>>
      [] kind = "nested" -> <<LB, KV, COMMA, KEY, LB, KV, RB, RB>>
      [] kind = "quoted" -> <<LB, KV, COMMA, QOPEN, RB, QCLOSE, RB>>
      [] kind = "unclosed" -> <<LB, KV>>
      [] kind = "junk" -> <<LB, JUNK, RB>>
      [] kind = "bare" -> <<JUNK>>
      [] OTHER -> <<>>

\* the text of segment i of a reply; the tool of a legacy pair is named
\* <<i>>, the calls a structured block declares are <<i, 1>> and <<i, 2>>
SegmentText(kind, i) ==
    IF kind = "prose" THEN <<TEXT>>
    ELSE IF kind = "block"
    THEN <<FENCE, LB, ARR, LB, NAME(<<i, 1>>)>> \o ArgsText("flat") \o
         <<RB, COMMA, LB, NAME(<<i, 2>>)>> \o ArgsText("flat") \o
         <<RB, ARREND, RB, FENCE>>
    ELSE <<TC(<<i>>), AR>> \o ArgsText(kind)

RECURSIVE ReplyFrom(_, _)
ReplyFrom(segs, i) ==
    IF i > Len(segs) THEN <<>>
    ELSE SegmentText(segs[i], i) \o ReplyFrom(segs, i + 1)
ReplyText(segs) == ReplyFrom(segs, 1)

\* json.loads on an object: the position after the object that starts at
\* p, or 0 if the text from p is not an object
RECURSIVE JsonObject(_, _), JsonMembers(_, _), JsonString(_, _)
JsonString(toks, p) ==
    IF p > Len(toks) THEN 0
    ELSE IF toks[p].t = "QCLOSE" THEN p + 1
    ELSE IF toks[p].t \in {"LB", "RB"} THEN JsonString(toks, p + 1)
    ELSE 0
JsonMembers(toks, p) ==
    IF p > Len(toks) THEN 0
    ELSE LET q == CASE toks[p].t = "KV" -> p + 1
                    [] toks[p].t = "KEY" -> JsonObject(toks, p + 1)
                    [] toks[p].t = "QOPEN" -> JsonString(toks, p + 1)
                    [] OTHER -> 0
         IN IF q = 0 \/ q > Len(toks) THEN 0
            ELSE IF toks[q].t = "RB" THEN q + 1
            ELSE IF toks[q].t = "COMMA" THEN JsonMembers(toks, q + 1)
            ELSE 0
JsonObject(toks, p) ==
    IF p + 1 > Len(toks) \/ toks[p].t # "LB" THEN 0
    ELSE IF toks[p + 1].t = "RB" THEN p + 2
    ELSE JsonMembers(toks, p + 1)

json_loads(toks) ==
    [ok |-> JsonObject(toks, 1) = Len(toks) + 1, value |-> toks]

\* the first closing brace at or after p, or 0
RECURSIVE FirstRB(_, _)
FirstRB(toks, p) ==
    IF p > Len(toks) THEN 0
    ELSE IF toks[p].t = "RB" THEN p
    ELSE FirstRB(toks, p + 1)

\* re.finditer(r'TOOL_CALL:\s*(\w+)\s*\nARGS:\s*(\{[^}]+\})', ...) from
\* position p on: the name and the text of group 2 of each match
RECURSIVE finditer(_, _)
finditer(toks, p) ==
    IF p > Len(toks) THEN <<>>
    ELSE LET q == FirstRB(toks, p + 3)
         IN IF /\ p + 3 <= Len(toks)
               /\ toks[p].t = "TC" /\ toks[p + 1].t = "AR" /\ toks[p + 2].t = "LB"
               /\ toks[p + 3].t # "RB" /\ q # 0
            THEN <<[name |-> toks[p].name, args_str |-> SubSeq(toks, p + 2, q)]>>
                 \o finditer(toks, q + 1)
            ELSE finditer(toks, p + 1)

\* the loop over the matches: a match whose arguments are not JSON is
\* skipped with a warning
RECURSIVE LoadMatches(_)
LoadMatches(matches) ==
    IF matches = <<>> THEN <<>>
    ELSE LET m == Head(matches)
             args == json_loads(m.args_str)
         IN (IF args.ok THEN <<ToolCall(m.name, args.value)>> ELSE <<>>)
            \o LoadMatches(Tail(matches))

_parse_tool_calls(text) == LoadMatches(finditer(text, 1))

InitParse ==
    /\ InitMain /\ IdleImprove /\ IdleTool /\ DEBUG = FALSE
    /\ ppc = "input" /\ reply_text \in Replies /\ parsed = <<>>

\* run() hands the reply to self._parse_tool_calls
ParseReply ==
    /\ ppc = "input"
    /\ parsed' = _parse_tool_calls(ReplyText(reply_text))
    /\ ppc' = "parsed"
    /\ UNCHANGED <<mainVars, reply_text, improveVars, toolVars, DEBUG>>

NextParse == ParseReply

SpecParse == InitParse /\ [][NextParse]_vars


\* ------------------------------------------- the improve_self tool alone
MaxFiles == 2
FileNames == 1..MaxFiles

\* what `git rev-parse --git-dir` and `git status --porcelain` report
RepoStates == {"norepo", "clean", "logdirty", "dirty"}

\* SelfImprover.can_improve: in a git repository with no change, or with
\* changes to IMPROVEMENTS.md only
can_improve(r) == r \in {"clean", "logdirty"}

\* a Python value by its type; a str has no string keys
Str == [raised |-> "none", type |-> "str"]
Raised(exc) == [raised |-> exc, type |-> "none"]

\* result[key] in _improve_self, for a string key
Subscript(result, key) ==
    IF result.type = "dict" THEN "value" ELSE "TypeError"

InitImprove ==
    /\ InitMain /\ IdleParse /\ IdleTool /\ DEBUG = FALSE
    /\ ipc = "input" /\ repo \in RepoStates /\ files \in SUBSET FileNames
    /\ written = {} /\ logged = FALSE /\ committed = FALSE
    /\ proposal = NoProposal /\ improve_result = NoResult

\* propose_improvement, the check: raises unless can_improve()
CheckRepo ==
    /\ ipc = "input"
    /\ IF can_improve(repo)
       THEN ipc' = "write" /\ proposal' = proposal
       ELSE ipc' = "finish" /\ proposal' = Raised("Exception")
    /\ UNCHANGED <<mainVars, parseVars, toolVars, DEBUG, repo, files, written, logged, committed,
                   improve_result>>

\* propose_improvement, one file of the loop over files.items(); the
\* write may raise (OSError)
WriteFile(ok) ==
    /\ ipc = "write" /\ written # files
    /\ LET f == CHOOSE x \in files \ written : \A y \in files \ written : x <= y
       IN IF ok
          THEN written' = written \cup {f} /\ ipc' = ipc /\ proposal' = proposal
          ELSE written' = written /\ ipc' = "finish"
                                  /\ proposal' = Raised("OSError")
    /\ UNCHANGED <<mainVars, parseVars, toolVars, DEBUG, repo, files, logged, committed,
                   improve_result>>

\* propose_improvement, _log_improvement: the entry is appended to the log
LogImprovement(ok) ==
    /\ ipc = "write" /\ written = files
    /\ IF ok
       THEN logged' = TRUE /\ ipc' = "commit" /\ proposal' = proposal
       ELSE logged' = FALSE /\ ipc' = "finish" /\ proposal' = Raised("OSError")
    /\ UNCHANGED <<mainVars, parseVars, toolVars, DEBUG, repo, files, written, committed,
                   improve_result>>

\* _commit_improvement: git add, git commit, git rev-parse HEAD, each with
\* check=True; then propose_improvement returns its message, a str
CommitOutcomes == {"ok", "add_failed", "commit_failed", "revparse_failed"}
CommitImprovement(outcome) ==
    /\ ipc = "commit"
    /\ committed' = (outcome \in {"ok", "revparse_failed"})
    /\ proposal' = IF outcome = "ok" THEN Str
                   ELSE Raised("CalledProcessError")
    /\ ipc' = "finish"
    /\ UNCHANGED <<mainVars, parseVars, toolVars, DEBUG, repo, files, written, logged,
                   improve_result>>

\* _improve_self after the call of propose_improvement: the four
\* subscripts of the result, the success ToolResult, and the
\* `except Exception` around it all
ImproveReturn ==
    /\ ipc = "finish"
    /\ improve_result' =
          IF proposal.raised # "none"
          THEN ToolResult(FALSE, "none", proposal.raised, FALSE)
          ELSE IF Subscript(proposal, "commit_hash") # "value"
          THEN ToolResult(FALSE, "none", Subscript(proposal, "commit_hash"), FALSE)
          ELSE ToolResult(TRUE, "out", "none", TRUE)
    /\ ipc' = "returned"
    /\ UNCHANGED <<mainVars, parseVars, toolVars, DEBUG, repo, files, written, logged, committed,
                   proposal>>

NextImprove ==
    \/ CheckRepo
    \/ \E ok \in BOOLEAN : WriteFile(ok)
    \/ \E ok \in BOOLEAN : LogImprovement(ok)
    \/ \E outcome \in CommitOutcomes : CommitImprovement(outcome)
    \/ ImproveReturn

SpecImprove == InitImprove /\ [][NextImprove]_vars


\* ------------------------------------- the compactor after earlier turns
MaxPriorTurns == 4   \* turns that went through before the ones followed
MaxRetries == 2      \* backend calls started after them

\* a short input without sentence end, and the inputs of the session
PriorUserContents == UserContents \cup {<<Chunk(2, FALSE)>>}
PriorTurns ==
    UNION {[1..n -> PriorUserContents \X ReplyContents] : n \in 0..MaxPriorTurns}

InitCompact ==
    /\ \E turns \in PriorTurns : InitAfter(turns)
    /\ IdleParse /\ IdleImprove /\ IdleTool /\ DEBUG = FALSE

\* inputs whose backend call may fail, so that the next call compacts the
\* buffer the failed call left
NextCompact ==
    \/ \E text \in UserContents : calls < MaxRetries /\ UserTurn(text)
    \/ CallStart
    \/ \E reply \in ReplyContents : CallOk(reply, <<>>)
    \/ CallFail
    \/ Display
    \/ LoopBack

SpecCompact == InitCompact /\ [][NextCompact]_vars


\* ------------------------------------------- one turn with the threads
MaxTicks == 2        \* seconds the timer counts during one call
Keys == {"esc", "other"}

\* a listener that sends a backend request of its own on a key press
_on_press_calling(key) ==
    /\ _keyboard_listener = "alive"
    /\ _esc_pressed' = IF key = "esc" THEN TRUE ELSE _esc_pressed
    /\ in_flight' = in_flight + 1
    /\ UNCHANGED <<pc, loopVars, instVars, config, savedLog, turnVars, countVars,
                   histVars, _keyboard_listener, executing, elapsed,
                   timer_thread>>

\* the listener thread: _on_press(key)
_on_press(key) ==
    /\ _keyboard_listener = "alive"
    /\ _esc_pressed' = IF key = "esc" THEN TRUE ELSE _esc_pressed
    /\ UNCHANGED <<pc, loopVars, instVars, config, savedLog, turnVars, countVars,
                   histVars, _keyboard_listener, in_flight, executing, elapsed,
                   timer_thread>>

\* the timer thread: _timer, one round of `while not stop_timer`
_timer ==
    /\ timer_thread = "running" /\ elapsed < MaxTicks
    /\ elapsed' = elapsed + 1
    /\ UNCHANGED <<pc, loopVars, instVars, config, savedLog, turnVars, countVars,
                   histVars, _esc_pressed, _keyboard_listener, in_flight,
                   executing, timer_thread>>

\* a handler that catches every exception, KeyboardInterrupt included
except_BaseException(exc) == TRUE

\* the `except FileNotFoundError` / `except Exception` of _call_ollama
except_call(exc) == exc \in {"FileNotFoundError", "Exception"}

\* Ctrl+C while ollama.chat is outstanding: KeyboardInterrupt passes the
\* `finally` (stop_timer = True, join) and the handlers of _call_ollama,
\* and reaches `except KeyboardInterrupt` of run()
Interrupt ==
    /\ pc = "inflight"
    /\ in_flight' = in_flight - 1 /\ timer_thread' = "stopped"
    /\ callOutcome' = "interrupted"
    /\ IF except_call("KeyboardInterrupt")
       THEN response' = NoResponse /\ pc' = AfterCall(NoResponse, <<>>)
       ELSE response' = response /\ pc' = "interrupted"
    /\ UNCHANGED <<loopVars, instVars, config, savedLog, user_message, tool_calls,
                   tool_results, requires_restart, tool_results_text, countVars,
                   bufAtCall, trace, builtInst, execLog, sessionHist,
                   _esc_pressed, _keyboard_listener, executing, elapsed>>

\* `except KeyboardInterrupt` of run(): "Save session before exiting?",
\* self._save_session() on "y", then break
InterruptSave(answer) ==
    /\ pc = "interrupted"
    /\ IF answer = "y"
       THEN /\ session_data' = Via(session_data, shData, 1, SavedData(1))
            /\ savedLog' = Append(savedLog, SavedData(1))
       ELSE UNCHANGED <<session_data, savedLog>>
    /\ pc' = "exited"
    /\ UNCHANGED <<loopVars, threadVars, idVars, bufVars, metricVars, shData,
                   config, turnVars, countVars, histVars>>

NextThreads ==
    \/ \E text \in UserContents : calls = 0 /\ UserTurn(text)
    \/ CallStart
    \/ \E reply \in ReplyContents, tcs \in SessionCallLists : CallOk(reply, tcs)
    \/ CallFail
    \/ StartTool
    \/ \E outcome \in ToolOutcomes : ExecTool(outcome)
    \/ ToolsDone
    \/ RestartSave
    \/ \E rebuilt, built \in BOOLEAN : RestartReload(rebuilt, built)
    \/ Display
    \/ LoopBack
    \/ \E key \in Keys : _on_press(key)
    \/ _timer
    \/ Interrupt
    \/ \E answer \in {"y", "n"} : InterruptSave(answer)

SpecThreads == Init /\ [][NextThreads]_vars


\* ------------------------------------------------- the loop under failures
\* a command handler raises: _save_session of /save when the log cannot be
\* opened, /sessions on a context manager without the method.  The
\* `except Exception` of run() prints the error and, if DEBUG is set,
\* raises it again, which ends run().
CmdRaises(exc) ==
    /\ pc = "prompt" /\ commands < MaxCommands
    /\ commands' = commands + 1
    /\ trace' = Append(trace, Ev("error", current))
    /\ pc' = IF except_Exception(exc) /\ ~DEBUG THEN "prompt" ELSE "crashed"
    /\ UNCHANGED <<loopVars, threadVars, instVars, config, savedLog, turnVars,
                   nextId, calls, bufAtCall, callOutcome, builtInst, execLog,
                   sessionHist>>

\* ollama.chat raises with DEBUG set: the `except Exception` of
\* _call_ollama raises it again after the `finally`, and so does the
\* handler of run()
CallRaises ==
    /\ pc = "inflight" /\ DEBUG
    /\ callOutcome' = "failed"
    /\ pc' = "crashed"
    /\ in_flight' = in_flight - 1 /\ timer_thread' = "stopped"
    /\ UNCHANGED <<loopVars, instVars, config, savedLog, turnVars, countVars,
                   bufAtCall, trace, builtInst, execLog, sessionHist,
                   _esc_pressed, _keyboard_listener, executing, elapsed>>

InitFailures ==
    /\ InitMain /\ IdleParse /\ IdleImprove /\ IdleTool
    /\ DEBUG \in BOOLEAN

NextFailures ==
    \/ \E exc \in ExceptionClasses : CmdRaises(exc)
    \/ \E rebuilt, built \in BOOLEAN : CmdReload(rebuilt, built)
    \/ \E text \in UserContents : FallThrough(text)
    \/ CmdBye
    \/ \E text \in UserContents : calls < MaxRetries /\ UserTurn(text)
    \/ CallStart
    \/ \E reply \in ReplyContents, tcs \in SessionCallLists : CallOk(reply, tcs)
    \/ CallFail
    \/ CallRaises
    \/ StartTool
    \/ \E outcome \in ToolOutcomes : ExecTool(outcome)
    \/ ToolsDone
    \/ RestartSave
    \/ \E rebuilt, built \in BOOLEAN : RestartReload(rebuilt, built)
    \/ Display
    \/ LoopBack
    \/ Interrupt
    \/ \E answer \in {"y", "n"} : InterruptSave(answer)

SpecFailures == InitFailures /\ [][NextFailures]_vars


\* ------------------------------------------------ the message list sent
\* _call_ollama: messages_for_call = list(self.messages) + [user_message],
\* the list ollama.chat is given while the call is outstanding
messages_for_call == messages[caller] \o <<user_message>>


\* ------------------------------------------------ the edit and bash tools
MaxLen == 3          \* characters in a file
MaxSeconds == 2      \* the longest timeout given to bash

\* "u" stands for a character the file encoding cannot encode
Chars == {"a", "b"}
Unencodable == "u"
SeqsUpTo(S, n) == UNION {[1..k -> S] : k \in 0..n}
Contents == SeqsUpTo(Chars, MaxLen)
OldStrings == SeqsUpTo(Chars, 2)
NewStrings == {<<>>, <<"b">>, <<"a", "a">>, <<Unencodable>>}
Paths == {"f"}
Missing == <<"missing">>     \* what fs holds for a path with no file

\* old occurs in content at position p
StartsAt(content, old, p) ==
    /\ p + Len(old) - 1 <= Len(content)
    /\ SubSeq(content, p, p + Len(old) - 1) = old

\* old_string in content
str_contains(content, old) ==
    \E p \in 1..(Len(content) + 1) : StartsAt(content, old, p)

\* content.count(old_string): occurrences from left to right that do not
\* overlap; len(content) + 1 for the empty string
RECURSIVE str_count(_, _, _)
str_count(content, old, p) ==
    IF old = <<>> THEN Len(content) + 1
    ELSE IF p + Len(old) - 1 > Len(content) THEN 0
    ELSE IF StartsAt(content, old, p)
         THEN 1 + str_count(content, old, p + Len(old))
         ELSE str_count(content, old, p + 1)

\* content.replace(old_string, new_string): every occurrence that
\* str_count counts is replaced
RECURSIVE str_replace(_, _, _, _)
str_replace(content, old, new, p) ==
    IF p > Len(content) THEN (IF old = <<>> THEN new ELSE <<>>)
    ELSE IF old = <<>>
         THEN new \o <<content[p]>> \o str_replace(content, old, new, p + 1)
    ELSE IF StartsAt(content, old, p)
         THEN new \o str_replace(content, old, new, p + Len(old))
         ELSE <<content[p]>> \o str_replace(content, old, new, p + 1)

\* path.write_text(text): open(path, 'w') truncates the file, then the
\* text is encoded and written; encoding raises after the truncation
Encodable(text) == \A i \in 1..Len(text) : text[i] # Unencodable
write_text(fsys, path, text) ==
    [fsys EXCEPT ![path] = IF Encodable(text) THEN text ELSE <<>>]

\* what the file system does to the reads and writes of one call
IoOutcomes == {"ok", "read_error", "open_error"}

EditResult(ok, out, err) == [success |-> ok, output |-> out, error |-> err]

\* _edit_file(file_path, old_string, new_string)
_edit_file(file_path, old_string, new_string, io) ==
    LET content == fs[file_path]
        new_content == str_replace(content, old_string, new_string, 1)
        where ==
            IF content = Missing THEN "missing"
            ELSE IF io = "read_error" THEN "raised"
            ELSE IF ~str_contains(content, old_string) THEN "absent"
            ELSE IF str_count(content, old_string, 1) > 1 THEN "ambiguous"
            ELSE IF io = "open_error" THEN "raised"
            ELSE IF ~Encodable(new_content) THEN "raised_in_write"
            ELSE "edited"
    IN  /\ tool_args' = [tool |-> "edit", file_path |-> file_path,
                         old_string |-> old_string, new_string |-> new_string,
                         io |-> io]
        /\ fs' = IF where \in {"edited", "raised_in_write"}
                 THEN write_text(fs, file_path, new_content) ELSE fs
        /\ tool_result' =
              CASE where = "missing" -> EditResult(FALSE, "none", "File not found")
                [] where = "absent" -> EditResult(FALSE, "none", "String not found in file")
                [] where = "ambiguous" -> EditResult(FALSE, "none", "String appears n times")
                [] where = "edited" -> EditResult(TRUE, "Edited", "none")
                [] OTHER -> EditResult(FALSE, "none", "Error editing file")
        /\ UNCHANGED <<mainVars, parseVars, improveVars, DEBUG>>

\* the other exception classes of the tool module
except_TimeoutExpired(exc) == exc = "TimeoutExpired"

NoMetadata == [k \in {} |-> 0]
BashResult(ok, out, err, metadata) ==
    [success |-> ok, output |-> out, error |-> err, metadata |-> metadata]

\* a command: the seconds it runs, its exit code, and whether
\* subprocess.run raises before it has run (OSError)
Commands == [seconds : 1..(MaxSeconds + 1), returncode : 0..2,
             raises : BOOLEAN]

\* _bash(command, timeout)
_bash(command, timeout) ==
    LET exc == IF command.raises THEN "OSError"
               ELSE IF command.seconds > timeout THEN "TimeoutExpired"
               ELSE "none"
        metadata == [returncode |-> command.returncode, command |-> command,
                     timeout |-> timeout]
    IN  /\ tool_args' = [tool |-> "bash", command |-> command, timeout |-> timeout]
        /\ tool_result' =
              IF exc = "none"
              THEN IF command.returncode = 0
                   THEN BashResult(TRUE, "stdout", "none", metadata)
                   ELSE BashResult(FALSE, "stdout", "Command failed with code", metadata)
              ELSE IF except_TimeoutExpired(exc)
              THEN BashResult(FALSE, "none", "Command timed out", NoMetadata)
              ELSE BashResult(FALSE, "none", "Error executing command", NoMetadata)
        /\ UNCHANGED <<mainVars, parseVars, improveVars, DEBUG, fs>>

InitFileTools ==
    /\ InitMain /\ klass[1] = "current"
    /\ IdleParse /\ IdleImprove /\ DEBUG = FALSE
    /\ fs \in [Paths -> Contents \cup {Missing}]
    /\ tool_args = NoArgs /\ tool_result = NoResult

NextFileTools ==
    \/ \E file_path \in Paths, old_string \in OldStrings,
          new_string \in NewStrings, io \in IoOutcomes :
          _edit_file(file_path, old_string, new_string, io)
    \/ \E command \in Commands, timeout \in 1..MaxSeconds : _bash(command, timeout)

SpecFileTools == InitFileTools /\ [][NextFileTools]_vars


\* ------------------------------------------------------- the context log
MaxSaves == 3        \* records in one log

\* working directories; "/a" and "/c" have the same first 8 hex digits of
\* their sha256
Cwds == {"/a", "/b", "/c"}

\* get_context_filename(cwd): "context-" + sha256(cwd)[:8] + ".txt"
get_context_filename(cwd) == IF cwd = "/b" THEN "context-2" ELSE "context-1"
LogFiles == {get_context_filename(cwd) : cwd \in Cwds}

\* the pieces of text a log is made of
Piece(kind, cwd, data) == [kind |-> kind, cwd |-> cwd, data |-> data]
NoLog == <<Piece("missing", "none", "none")>>
SessionIds == {"s1", "s2"}

\* _build_session_entry(cwd, session_data, is_new), data the session_data: the repository header
\* for a new file, then the record of the session
_build_session_entry(cwd, data, is_new) ==
    (IF is_new THEN <<Piece("header", cwd, "none")>> ELSE <<>>)
    \o <<Piece("session", cwd, data)>>

\* a file opened with 'w' and written to
open_w(content, entry) == entry

\* context_path.open('a'), f.write(entry)
open_a(content, entry) ==
    (IF content = NoLog THEN <<>> ELSE content) \o entry

\* the session records of a log
RECURSIVE Records(_)
Records(content) ==
    IF content = <<>> \/ content = NoLog THEN 0
    ELSE (IF Head(content).kind = "session" THEN 1 ELSE 0) + Records(Tail(content))

\* _save_session with os.getcwd() = cwd: append_session(cwd, data);
\* io: whether the log can be opened
append_session(cwd, data, io) ==
    LET context_path == get_context_filename(cwd)
        is_new == fs[context_path] = NoLog
        entry == _build_session_entry(cwd, data, is_new)
    IN  /\ Records(fs[context_path]) < MaxSaves
        /\ tool_args' = [tool |-> "save", cwd |-> cwd,
                         session_data |-> data, io |-> io]
        /\ fs' = IF io = "ok"
                 THEN [fs EXCEPT ![context_path] = open_a(@, entry)] ELSE fs
        /\ tool_result' = IF io = "ok" THEN EditResult(TRUE, "none", "none")
                          ELSE EditResult(FALSE, "none", "OSError")
        /\ UNCHANGED <<mainVars, parseVars, improveVars, DEBUG>>

InitLog ==
    /\ InitMain /\ klass[1] = "current"
    /\ IdleParse /\ IdleImprove /\ DEBUG = FALSE
    /\ fs = [p \in LogFiles |-> NoLog]
    /\ tool_args = NoArgs /\ tool_result = NoResult

NextLog ==
    \E cwd \in Cwds, data \in SessionIds, io \in {"ok", "open_error"} :
        append_session(cwd, data, io)

SpecLog == InitLog /\ [][NextLog]_vars


\* ---------------------------------------------------- the backend options
\* a configuration: the keys of twin_config.generation_params and of
\* twin_config.ollama that _build_ollama_options reads, NONE for a key that
\* is not there; temperature and top_p in tenths, keep_alive in minutes
Configs ==
    [temperature : {NONE, 0, 3}, top_p : {NONE, 8}, num_ctx : {NONE, 0, 256},
     context_window : {NONE, 512}, keep_alive : {NONE, 5}]

OptionKeys == {"temperature", "top_p", "num_ctx", "keep_alive"}

\* an option builder that takes num_ctx as the compactor does: a value
\* that is falsy counts as absent
_build_ollama_options_or(cfg) ==
    LET num_ctx == IF cfg.num_ctx # NONE /\ cfg.num_ctx # 0 THEN cfg.num_ctx
                   ELSE cfg.context_window
        value == [k \in OptionKeys |->
                     IF k = "num_ctx" THEN num_ctx ELSE cfg[k]]
    IN  [k \in {j \in OptionKeys : value[j] # NONE} |-> value[k]]

\* _build_ollama_options: `if key in generation_params`, `elif
\* 'context_window' in ollama_cfg`, `if 'keep_alive' in ollama_cfg`
_build_ollama_options(cfg) ==
    LET num_ctx == IF cfg.num_ctx # NONE THEN cfg.num_ctx
                   ELSE cfg.context_window
        value == [k \in OptionKeys |->
                     IF k = "num_ctx" THEN num_ctx ELSE cfg[k]]
    IN  [k \in {j \in OptionKeys : value[j] # NONE} |-> value[k]]

\* the options of one backend call, built from the configuration at hand
BuildOptions ==
    /\ tool_args.tool = "config"
    /\ tool_args' = [tool_args EXCEPT !.tool = "options"]
    /\ tool_result' = _build_ollama_options(tool_args.config)
    /\ UNCHANGED <<mainVars, parseVars, improveVars, DEBUG, fs>>

InitOptions ==
    /\ InitMain /\ klass[1] = "current"
    /\ IdleParse /\ IdleImprove /\ DEBUG = FALSE
    /\ fs = <<>> /\ tool_result = NoResult
    /\ \E cfg \in Configs : tool_args = [tool |-> "config", config |-> cfg]

NextOptions == BuildOptions

SpecOptions == InitOptions /\ [][NextOptions]_vars


\* --------------------------------------------------- the post-check test
MaxResults == 3      \* tool results in one list

\* the methods of SessionOrchestrator that work on tool calls and results
ToolMethods == {"_parse_tool_calls", "_execute_tools", "_format_tool_results",
                "_handle_restart"}

\* a tool result as the test builds it: success, and whether metadata has
\* a file_path
PostResults == [success : BOOLEAN, file_path : BOOLEAN]
ResultLists == UNION {[1..n -> PostResults] : n \in 0..MaxResults}

\* what test_should_run_post_checks_detects_file_changes expects of the
\* method: a successful result with a file_path in its metadata
should_run_post_checks(results) ==
    \E i \in 1..Len(results) : results[i].success /\ results[i].file_path

Returned(v) == [raised |-> "none", value |-> v]

\* orchestrator.<name>(results): the attribute lookup on the instance,
\* then the call
CallMethod(name, results) ==
    IF name \in ToolMethods THEN Returned(should_run_post_checks(results))
    ELSE [raised |-> "AttributeError", value |-> FALSE]

\* the test calls orchestrator._should_run_post_checks(results)
RunPostChecks ==
    /\ tool_args.tool = "results"
    /\ tool_args' = [tool_args EXCEPT !.tool = "post_checks"]
    /\ tool_result' = CallMethod("_should_run_post_checks", tool_args.results)
    /\ UNCHANGED <<mainVars, parseVars, improveVars, DEBUG, fs>>

InitPostChecks ==
    /\ InitMain /\ klass[1] = "current"
    /\ IdleParse /\ IdleImprove /\ DEBUG = FALSE
    /\ fs = <<>> /\ tool_result = NoResult
    /\ \E results \in ResultLists : tool_args = [tool |-> "results", results |-> results]

NextPostChecks == RunPostChecks

SpecPostChecks == InitPostChecks /\ [][NextPostChecks]_vars


\* ------------------------------------------ one call, any configuration
\* twin_config as test_session.py and the shipped configuration have it:
\* generation_params.num_ctx set, only ollama.context_window set, neither,
\* both, and a num_ctx of 0
BudgetConfigs ==
    {[num_ctx |-> 120, context_window |-> NONE],
     [num_ctx |-> NONE, context_window |-> 120],
     [num_ctx |-> NONE, context_window |-> NONE],
     [num_ctx |-> 120, context_window |-> 512],
     [num_ctx |-> 0, context_window |-> 120]}

BudgetTurns == UNION {[1..n -> UserContents \X ReplyContents] : n \in 0..MaxPriorTurns}

InitBudget ==
    /\ \E turns \in BudgetTurns : InitConfigured(turns, BudgetConfigs)
    /\ klass[1] = "current"
    /\ IdleParse /\ IdleImprove /\ IdleTool /\ DEBUG = FALSE

NextBudget ==
    \/ \E n \in CtxArgs : calls = 0 /\ CmdCtx(n)
    \/ \E text \in UserContents : calls < MaxRetries /\ UserTurn(text)
    \/ CallStart
    \/ \E reply \in ReplyContents : CallOk(reply, <<>>)
    \/ CallFail
    \/ Display
    \/ LoopBack

SpecBudget == InitBudget /\ [][NextBudget]_vars


\* ------------------------------------------- the configuration commands
\* float(args): a number (in tenths), nan, inf, or ValueError
Float(kind, v) == [kind |-> kind, v |-> v]
TempArgs == {"0.3", "1.5", "2.0", "-0.1", "nan", "inf", "warm"}
float(args) ==
    CASE args = "0.3" -> Float("num", 3)
      [] args = "1.5" -> Float("num", 15)
      [] args = "2.0" -> Float("num", 20)
      [] args = "-0.1" -> Float("num", 0 - 1)
      [] args = "nan" -> Float("nan", 0)
      [] args = "inf" -> Float("inf", 0)
      [] OTHER -> Float("ValueError", 0)

\* x < n and x > n for a float x and a number n: every comparison with nan
\* is false
float_lt(x, n) == x.kind = "num" /\ x.v < n
float_gt(x, n) == x.kind = "inf" \/ (x.kind = "num" /\ x.v > n)

\* int(args): an integer or ValueError (NONE)
CtxTexts == {"1024", "512", "100", "2048.0", "big"}
int(args) ==
    CASE args = "1024" -> 1024 [] args = "512" -> 512 [] args = "100" -> 100
      [] OTHER -> NONE

\* twin_config.model_aliases, and the names `ollama list` prints
model_aliases == [a \in {"fast"} |-> "m1"]
ModelArgs == {"fast", "m1", "m2", "slow"}
Installed == {{}, {"m1"}, {"m1", "m2"}}
resolve_model_alias(args) ==
    IF args \in DOMAIN model_aliases THEN model_aliases[args] ELSE args

ModeArgs == {"work", "personal", "Work", "play"}

\* the configuration of the orchestrator the commands work on
Settings(m, mdl, n, t) == [mode |-> m, model |-> mdl, num_ctx |-> n, temperature |-> t]

\* _handle_command for /mode, /model, /ctx and /temp with an argument;
\* installed: the models validate_model_exists finds
ConfigCommand(cmd, args, installed) ==
    LET s == tool_result
        temp == float(args)
        num_ctx == int(args)
        resolved_model == resolve_model_alias(args)
    IN  /\ tool_args' = [tool |-> cmd, args |-> args, installed |-> installed]
        /\ tool_result' =
              CASE cmd = "mode" ->
                      IF args \in {"work", "personal"}
                      THEN [s EXCEPT !.mode = args] ELSE s
                [] cmd = "model" ->
                      IF resolved_model \in installed
                      THEN [s EXCEPT !.model = resolved_model] ELSE s
                [] cmd = "ctx" ->
                      IF num_ctx = NONE \/ num_ctx < MinCtx THEN s
                      ELSE [s EXCEPT !.num_ctx = num_ctx]
                [] OTHER ->
                      IF temp.kind = "ValueError" THEN s
                      ELSE IF float_lt(temp, 0) \/ float_gt(temp, 15) THEN s
                      ELSE [s EXCEPT !.temperature = temp]
        /\ UNCHANGED <<mainVars, parseVars, improveVars, DEBUG, fs>>

InitConfigCommands ==
    /\ InitMain /\ klass[1] = "current"
    /\ IdleParse /\ IdleImprove /\ DEBUG = FALSE
    /\ fs = <<>> /\ tool_args = NoArgs
    /\ tool_result = Settings("personal", "m1", 120, Float("num", 7))

NextConfigCommands ==
    \/ \E args \in ModeArgs : ConfigCommand("mode", args, {})
    \/ \E args \in ModelArgs, installed \in Installed :
          ConfigCommand("model", args, installed)
    \/ \E args \in CtxTexts : ConfigCommand("ctx", args, {})
    \/ \E args \in TempArgs : ConfigCommand("temp", args, {})

SpecConfigCommands == InitConfigCommands /\ [][NextConfigCommands]_vars


\* --------------------------------------------------------- the read tool
MAX_LINES == 2000
MaxExtra == 2      \* line counts and offsets this far around the marks

Min(a, b) == IF a < b THEN a ELSE b

\* line counts and offsets around 0, MAX_LINES and twice MAX_LINES
LineCounts ==
    (0..MaxExtra) \cup ((MAX_LINES - MaxExtra)..(MAX_LINES + MaxExtra))
        \cup {2 * MAX_LINES + 1}
Limits == {NONE, 0, 1, MAX_LINES, MAX_LINES + 1}

\* lines[start:end] of a list of total lines, as the range [from, to)
Slice(total, start, end) ==
    [from |-> Min(start, total),
     to |-> IF Min(end, total) < Min(start, total) THEN Min(start, total)
            ELSE Min(end, total)]

\* _read_file on a text file of total_lines lines, from `# Apply offset and
\* limit` on; limit NONE is the default None
ReadResult(total_lines, offset, limit) ==
    LET start == offset
        cut == limit = NONE /\ total_lines > MAX_LINES
        end == IF cut THEN start + MAX_LINES
               ELSE IF limit # NONE /\ limit # 0 THEN offset + limit
               ELSE total_lines
        selected_lines == Slice(total_lines, start, end)
    IN  [success |-> TRUE,
         selected |-> selected_lines,
         notice |-> cut,
         metadata |-> [total_lines |-> total_lines,
                       returned_lines |-> selected_lines.to - selected_lines.from,
                       offset |-> start,
                       truncated |-> cut]]

_read_file(total_lines, offset, limit) ==
    /\ tool_args' = [tool |-> "read", total_lines |-> total_lines,
                     offset |-> offset, limit |-> limit]
    /\ tool_result' = ReadResult(total_lines, offset, limit)
    /\ UNCHANGED <<mainVars, parseVars, improveVars, DEBUG, fs>>

InitRead ==
    /\ InitMain /\ klass[1] = "current"
    /\ IdleParse /\ IdleImprove /\ DEBUG = FALSE /\ IdleTool

NextRead ==
    \E total_lines \in LineCounts, offset \in LineCounts, limit \in Limits :
        _read_file(total_lines, offset, limit)

SpecRead == InitRead /\ [][NextRead]_vars


\* ------------------------------------------ one turn that is carried on
\* the steps of a turn once the input is read: every backend call and
\* every tool returns, and run() goes on
TurnSteps ==
    \/ CallStart
    \/ \E reply \in ReplyContents, tcs \in CallLists : CallOk(reply, tcs)
    \/ CallFail
    \/ StartTool
    \/ \E outcome \in ToolOutcomes : ExecTool(outcome)
    \/ ToolsDone
    \/ RestartSave
    \/ \E rebuilt, built \in BOOLEAN : RestartReload(rebuilt, built)
    \/ Display
    \/ LoopBack

SpecTurnEnds == SpecTools /\ WF_vars(TurnSteps)


\* options = self._build_ollama_options() of _call_ollama, for a
\* configuration that sets none of temperature, top_p and keep_alive
CallOptions(cfg) ==
    _build_ollama_options([temperature |-> NONE, top_p |-> NONE,
                           keep_alive |-> NONE, num_ctx |-> cfg.num_ctx,
                           context_window |-> cfg.context_window])


\* ================================================================ claims

\* C1: a backend call that fails leaves messages, static_system_messages
\* and running_summary exactly as they were when the call was attempted,
\* also for a buffer above the compaction threshold.
C1_FailedCallLeavesBuffer ==
    callOutcome = "failed" =>
        /\ messages[caller] = bufAtCall.messages
        /\ static_system_messages[caller] = bufAtCall.static
        /\ running_summary[caller] = bufAtCall.running_summary

\* C2: the buffer is the static messages, then the summary, then the
\* tail: the static messages are a prefix of messages, each of them occurs
\* once, and every dynamic message that was appended is still in the
\* buffer or was handed to the summarizer.
C2_BufferIsStaticSummaryTail ==
    LET m == messages[current]
        st == static_system_messages[current]
    IN  /\ Len(st) <= Len(m)
        /\ SubSeq(m, 1, Len(st)) = st
        /\ \A i \in 1..Len(st) :
              Cardinality({j \in 1..Len(m) : m[j].id = st[i].id}) = 1
        /\ appended \subseteq (Ids(m) \cup handed)

\* the calls a reply declares in its segments of the given kinds, in order
RECURSIVE DeclaredFrom(_, _, _)
DeclaredFrom(segs, i, kinds) ==
    IF i > Len(segs) THEN <<>>
    ELSE (IF segs[i] \notin kinds THEN <<>>
          ELSE IF segs[i] = "block"
          THEN <<ToolCall(<<i, 1>>, ArgsText("flat")),
                 ToolCall(<<i, 2>>, ArgsText("flat"))>>
          ELSE <<ToolCall(<<i>>, ArgsText(segs[i]))>>)
         \o DeclaredFrom(segs, i + 1, kinds)
Declared(segs, kinds) == DeclaredFrom(segs, 1, kinds)

Count(segs, kinds) == Cardinality({i \in 1..Len(segs) : segs[i] \in kinds})

\* C3: a reply with a fenced JSON block {"tool_calls": [{"name", "args"},
\* ...]} is parsed into exactly the calls the block declares, in order.
C3_StructuredBlockParsed ==
    (/\ ppc = "parsed"
     /\ Count(reply_text, {"block"}) = 1
     /\ Count(reply_text, {"block", "prose"}) = Len(reply_text))
    => parsed = Declared(reply_text, {"block"})

\* C4: of N legacy pairs of which exactly one has malformed arguments
\* (not JSON, or an object that is never closed) the parser returns the
\* other N-1, in order.  The siblings here are flat objects.
C4_OneMalformedPairSkipped ==
    (/\ ppc = "parsed"
     /\ Count(reply_text, Malformed) = 1
     /\ Count(reply_text, Malformed \cup {"flat"}) = Len(reply_text))
    => parsed = Declared(reply_text, {"flat"})

\* C5: every well-formed legacy pair is returned with its complete
\* arguments: also the empty object, an object with a nested object, and
\* a string value that contains a closing brace.
C5_WellFormedPairsReturned ==
    (/\ ppc = "parsed"
     /\ Count(reply_text, WellFormed \cup {"prose"}) = Len(reply_text))
    => parsed = Declared(reply_text, WellFormed)

C8_LoopUsesNewInstance ==
    [][current = 2 =>
          /\ pc' \in {"call", "inflight"} => caller' = 2
          /\ afterSwap' \subseteq (Ids(messages'[2]) \cup handed')
          /\ tool_registry'[1] = tool_registry[1]
          /\ running_summary'[1] = running_summary[1]
          /\ mode'[1] = mode[1] /\ model'[1] = model[1]
      ]_vars

RestartEvents == SelectSeq(trace, LAMBDA e : e.ev \in {"save", "reload"})

\* C9: when a tool result carries requires_restart, then before the next
\* input is read the session is saved, then the modules are reloaded, and
\* if the reload built a new instance the loop goes on with it.
C9_RestartContinuesOnNewInstance ==
    (requires_restart /\ pc \in {"display", "turn_end"}) =>
        /\ RestartEvents = <<Ev("save", 1), Ev("reload", 1)>>
        /\ builtInst # "dropped"

\* C10: the instance the loop swaps to holds the old instance's
\* session_id, message buffer, static messages, running summary, metrics,
\* session_data, mode, agent, model and tool registry.
C10_MigrationKeepsState ==
    [][(current = 1 /\ current' = 2) =>
          /\ session_id'[2] = session_id[1]
          /\ messages'[2] = messages[1] /\ shMessages'
          /\ static_system_messages'[2] = static_system_messages[1] /\ shStatic'
          /\ running_summary'[2] = running_summary[1]
          /\ session_metrics'[2] = session_metrics[1] /\ shMetrics'
          /\ session_data'[2] = session_data[1] /\ shData'
          /\ mode'[2] = mode[1] /\ agent'[2] = agent[1] /\ model'[2] = model[1]
          /\ tool_registry'[2] = tool_registry'[1]
      ]_vars

\* the loop has just swapped to an instance built after a turn was made
C10_Witness ==
    /\ current = 2 /\ afterSwap = {}
    /\ session_metrics[2].queries > 0
    /\ Len(messages[2]) > Len(static_system_messages[2])

\* a step of a hot reload: /reload, or the reload of _handle_restart
ReloadStep ==
    \/ \E rebuilt, built \in BOOLEAN : CmdReload(rebuilt, built)
    \/ \E rebuilt, built \in BOOLEAN : RestartReload(rebuilt, built)

\* C11: every hot reload, from a tool result with requires_restart or from
\* /reload, comes with a flush of the session state right before it: the
\* handler that reloads has handed session_data to append_session.
C11_ReloadPrecededByFlush ==
    [][ReloadStep =>
          \/ Len(savedLog') > Len(savedLog)
          \/ (trace # <<>> /\ trace[Len(trace)] = Ev("save", 1))
      ]_vars

\* C12: when propose_improvement has written the files, logged the entry
\* and committed without raising, the improve_self tool returns a result
\* with success true and requires_restart true in its metadata.
C12_ImprovementReportsRestart ==
    (ipc = "returned" /\ written = files /\ logged /\ committed
        /\ proposal.raised = "none")
    => (improve_result.success /\ improve_result.metadata.requires_restart)

IsPrefix(a, b) == Len(a) <= Len(b) /\ SubSeq(b, 1, Len(a)) = a

\* C13: the static messages are never compacted: the step of _call_ollama
\* that runs _maybe_compact_messages leaves static_system_messages as it
\* was, and across every step of the session (backend calls, commands,
\* reload) the static messages of the instance the loop works on, and of
\* each instance, keep their entries in place and never get fewer.
C13_StaticNeverCompacted ==
    [][/\ IsPrefix(static_system_messages[current],
                   static_system_messages'[current'])
       /\ \A s \in Slots : IsPrefix(static_system_messages[s],
                                    static_system_messages'[s])
       /\ pc = "call" =>
             static_system_messages'[caller] = static_system_messages[caller]
      ]_vars

\* a buffer with two static messages was compacted and the static messages
\* are the two of before
C13_Witness ==
    /\ pc = "inflight" /\ Ev("compact", caller) \in {trace[i] : i \in DOMAIN trace}
    /\ Len(static_system_messages[caller]) = 2
    /\ static_system_messages[caller] = bufAtCall.static
    /\ IsPrefix(bufAtCall.static, messages[caller])

\* the last n elements of s, all of s if it has fewer
LastN(s, n) == IF Len(s) <= n THEN s ELSE SubSeq(s, Len(s) - n + 1, Len(s))

\* _maybe_compact_messages has just run on a buffer above the threshold
CompactedOverThreshold ==
    /\ pc = "inflight"
    /\ _estimate_char_count(bufAtCall.messages) > compact_threshold(config)

\* C14: when _maybe_compact_messages has run on a buffer whose estimated
\* size is above the threshold, the last 6 messages of the buffer are the
\* last 6 messages of the buffer before it ran, in order and content.
C14_ProtectedWindowKept ==
    CompactedOverThreshold =>
        LastN(messages[caller], 6) = LastN(bufAtCall.messages, 6)

\* the buffer was rebuilt around a summary and has its six recent messages
C14_Witness ==
    /\ CompactedOverThreshold
    /\ messages[caller] # bufAtCall.messages
    /\ Len(messages[caller]) = Len(static_system_messages[caller]) + 7
    /\ LastN(messages[caller], 6) = LastN(bufAtCall.messages, 6)

\* the characters of the buffer after its first k messages
DynamicChars(msgs, k) ==
    IF Len(msgs) <= k THEN 0 ELSE _estimate_char_count(SubSeqFrom(msgs, k + 1))

\* C15: when _maybe_compact_messages has run on a buffer whose estimated
\* size is above the threshold, the characters of the dynamic part of the
\* buffer (all after the static messages, the summary message included)
\* are strictly fewer than before it ran.
C15_DynamicTailShrinks ==
    CompactedOverThreshold =>
        DynamicChars(messages[caller], Len(bufAtCall.static))
            < DynamicChars(bufAtCall.messages, Len(bufAtCall.static))

\* the messages of msgs that carry a compaction summary: System messages
\* whose content starts with the summary header
SummaryMessages(msgs) ==
    {i \in 1..Len(msgs) : /\ msgs[i].role = "system"
                          /\ msgs[i].content # <<>>
                          /\ msgs[i].content[1] = SummaryHeader}

\* C16: when _maybe_compact_messages has run on a buffer whose estimated
\* size is above the threshold, the buffer holds a System message carrying
\* the summary ('Conversation so far (summarized)'), and running_summary
\* is non-empty and is the summary text of that message.
C16_SummaryMessagePresent ==
    CompactedOverThreshold =>
        /\ running_summary[caller] # <<>>
        /\ \E i \in SummaryMessages(messages[caller]) :
              messages[caller][i].content
                  = <<SummaryHeader>> \o running_summary[caller]

\* C17: when the buffer is above the threshold and _maybe_compact_messages
\* compacts it (rebuilds it around a summary), the buffer has strictly
\* fewer messages than before, also when the compaction comes right after
\* another one with no successful call in between.
C17_CompactionRemovesMessages ==
    (CompactedOverThreshold /\ messages[caller] # bufAtCall.messages) =>
        Len(messages[caller]) < Len(bufAtCall.messages)

\* C18: the conversation sent to the backend is within the context budget:
\* when _maybe_compact_messages has returned, the estimated character size
\* of the buffer is at most num_ctx * 4, whatever the sizes of the messages.
C18_BufferWithinBudget ==
    pc = "inflight" =>
        _estimate_char_count(messages[caller]) <= max_chars(config)

\* C19: when ESC is pressed while a backend call is outstanding, the
\* orchestrator sees the listener's flag during that call and ends it:
\* the call returns no reply and the message buffer is as it was.
C19_EscCancelsCall ==
    [][(pc = "inflight" /\ _esc_pressed /\ pc' # "inflight") =>
          /\ response' = NoResponse
          /\ messages' = messages
      ]_vars

\* C20: at every moment at most one backend request is in flight and at
\* most one tool is executing, and no tool executes while a request is in
\* flight; a step of the listener thread (it sets the flag) or of the timer
\* thread (it counts a second) starts no backend call and no tool.
C20_OneRequestOneTool ==
    [][/\ in_flight' <= 1 /\ executing' <= 1
       /\ in_flight' + executing' <= 1
       /\ ((~_esc_pressed /\ _esc_pressed') \/ elapsed' > elapsed) =>
             (in_flight' = in_flight /\ executing' = executing)
       /\ in_flight' > in_flight => pc = "call"
       /\ executing' > executing => pc = "exec"
      ]_vars

\* a tool is executing after ESC was pressed and the timer has counted
C20_Witness ==
    /\ executing = 1 /\ in_flight = 0
    /\ _esc_pressed /\ elapsed > 0 /\ _keyboard_listener = "alive"

\* C21: a KeyboardInterrupt while a backend call is outstanding cancels
\* the call: no message is appended, the metrics are as before, the timer
\* thread is told to stop, the operator is asked whether to save (and the
\* session is saved only on "y"), and from there the loop can only exit;
\* once it has exited nothing is called, appended or saved.
C21_InterruptCancelsCall ==
    [][/\ (callOutcome # "interrupted" /\ callOutcome' = "interrupted") =>
             /\ messages' = messages /\ session_metrics' = session_metrics
             /\ in_flight' = 0 /\ timer_thread' = "stopped"
             /\ pc' = "interrupted"
       /\ pc = "interrupted" =>
             /\ pc' \in {"interrupted", "exited"}
             /\ messages' = messages /\ session_metrics' = session_metrics
             /\ in_flight' = 0
             /\ savedLog' \in {savedLog, Append(savedLog, SavedData(1))}
             /\ pc' = "interrupted" => savedLog' = savedLog
       /\ pc = "exited" =>
             /\ pc' = "exited" /\ in_flight' = 0 /\ executing' = 0
             /\ messages' = messages /\ savedLog' = savedLog
      ]_vars

\* the call was interrupted after the timer had counted, the operator
\* answered "y" and the loop is over
C21_Witness ==
    /\ pc = "exited" /\ callOutcome = "interrupted"
    /\ Len(savedLog) = 1 /\ elapsed > 0 /\ timer_thread = "stopped"
    /\ in_flight = 0

\* what a step of the loop does under "no failure ends the loop": it never
\* leaves run() with an exception; a backend call that failed, a tool that
\* raised, a hot reload and a command handler that raised leave the loop
\* running; and the loop ends only from /bye (which saves) or from the
\* interrupt handler
LoopSurvives ==
    /\ pc' # "crashed"
    /\ (callOutcome # "failed" /\ callOutcome' = "failed")
          => pc' \in {"turn_end", "restart"}
    /\ (Len(execLog') > Len(execLog) /\ execLog'[Len(execLog')].raised)
          => pc' = "exec"
    /\ ReloadStep => pc' \in {"prompt", "fallthrough", "display", "turn_end"}
    /\ (Len(trace') > Len(trace) /\ trace'[Len(trace')].ev = "error")
          => pc' = "prompt"
    /\ (pc # "exited" /\ pc' = "exited")
          => \/ pc = "interrupted"
             \/ pc = "prompt" /\ savedLog' = Append(savedLog, SavedData(current))

ReloadKeeps(s, rebuilt) ==
    /\ pc' \notin {"crashed", "exited"}
    /\ \A t \in {s, current'} :
          LET o == IF t = s THEN s ELSE current IN
          /\ messages'[t] = messages[o]
          /\ static_system_messages'[t] = static_system_messages[o]
          /\ running_summary'[t] = running_summary[o]
          /\ session_metrics'[t] = session_metrics[o]
          /\ session_data'[t] = session_data[o]
    /\ \/ tool_registry'[s] = tool_registry[s]
       \/ tool_registry'[s] \notin {tool_registry[t] : t \in Slots}
    /\ ~rebuilt => tool_registry'[s] = tool_registry[s]

CommandStep == pc = "prompt" /\ (commands' = commands + 1 \/ pc' = "exited")

\* C24: handling an input that begins with '/' never calls the backend:
\* the loop is back at the prompt or has ended, no request is out, the
\* query metrics are what they were and no message of a turn has been
\* appended to the buffer.
C24_CommandsNeverCallBackend ==
    [][CommandStep =>
          /\ pc' \in {"prompt", "exited", "crashed"}
          /\ in_flight' = in_flight
          /\ calls' = calls
          /\ session_metrics'[current'].queries = session_metrics[current].queries
          /\ appended' = appended
      ]_vars

\* C25: the follow-up call after the tools have run is given only the
\* minimal prompt with the tool results: no user or assistant message of an
\* earlier turn comes before the follow-up prompt in the list sent.
C25_FollowupSendsOnlyResults ==
    (pc = "inflight" /\ callKind = "followup") =>
        \A i \in 1..(Len(messages_for_call) - 1) :
            messages_for_call[i].role = "system"

\* the positions old occurs at in content, overlapping ones included
Positions(content, old) ==
    {p \in 1..(Len(content) + 1) : StartsAt(content, old, p)}

\* C26: on a file that can be read and written, edit fails with "not
\* found" when old does not occur in it, fails as ambiguous when old
\* occurs at more than one position (overlapping occurrences included),
\* and otherwise succeeds and replaces exactly the one occurrence.
C26_EditReplacesTheOneOccurrence ==
    [][\A file_path \in Paths, old \in OldStrings, new \in NewStrings :
          (/\ _edit_file(file_path, old, new, "ok")
           /\ fs[file_path] # Missing /\ Encodable(new))
          => LET content == fs[file_path]
                 at == Positions(content, old)
             IN  /\ at = {} =>
                       /\ ~tool_result'.success
                       /\ tool_result'.error = "String not found in file"
                 /\ Cardinality(at) > 1 =>
                       /\ ~tool_result'.success
                       /\ tool_result'.error = "String appears n times"
                 /\ Cardinality(at) = 1 =>
                       /\ tool_result'.success
                       /\ \A p \in at :
                             fs'[file_path] =
                                SubSeq(content, 1, p - 1) \o new
                                \o SubSeq(content, p + Len(old), Len(content))
      ]_vars

\* C27: on every failure path of edit (file missing, old absent, old
\* ambiguous, an exception while reading or writing) the content of the
\* file is what it was, so a failing edit can be repeated any number of
\* times and leaves the file as it was.
C27_FailedEditLeavesFile ==
    [][(tool_args'.tool = "edit" /\ ~tool_result'.success) => fs' = fs]_vars

C29_SaveAppendsOneRecord ==
    [][(tool_args'.tool = "save" /\ tool_args'.io = "ok") =>
          LET log == get_context_filename(tool_args'.cwd)
              before == IF fs[log] = NoLog THEN <<>> ELSE fs[log]
          IN  /\ Records(fs'[log]) = Records(fs[log]) + 1
              /\ IsPrefix(before, fs'[log])
              /\ fs'[log][Len(fs'[log])] =
                    Piece("session", tool_args'.cwd, tool_args'.session_data)
              /\ \A other \in LogFiles \ {log} : fs'[other] = fs[other]
      ]_vars

\* the same session has been saved three times from the same directory:
\* the log holds the header and three records of it
C29_Witness ==
    /\ tool_args.tool = "save"
    /\ LET log == fs[get_context_filename("/b")]
       IN  /\ Records(log) = 3 /\ Len(log) = 4
           /\ \A i \in 2..4 : log[i] = Piece("session", "/b", "s1")

\* C30: _build_ollama_options maps the configuration into the options of
\* the backend call: temperature, top_p and num_ctx from generation_params,
\* keep_alive from the ollama section, num_ctx from ollama.context_window
\* when generation_params has none, and a key the configuration does not
\* have is not in the options.
C30_OptionsFollowConfig ==
    tool_args.tool = "options" =>
        LET cfg == tool_args.config
            options == tool_result
            Has(k) == k \in DOMAIN options
        IN  /\ DOMAIN options \subseteq OptionKeys
            /\ \A k \in {"temperature", "top_p", "keep_alive"} :
                  /\ Has(k) <=> cfg[k] # NONE
                  /\ Has(k) => options[k] = cfg[k]
            /\ cfg.num_ctx # NONE
                  => Has("num_ctx") /\ options["num_ctx"] = cfg.num_ctx
            /\ (cfg.num_ctx = NONE /\ cfg.context_window # NONE)
                  => Has("num_ctx") /\ options["num_ctx"] = cfg.context_window
            /\ (cfg.num_ctx = NONE /\ cfg.context_window = NONE)
                  => ~Has("num_ctx")

\* the configuration of the repository's test (temperature 0.3, top_p 0.8,
\* num_ctx 256, keep_alive 5m, no context_window) has been mapped
C30_Witness ==
    /\ tool_args.tool = "options"
    /\ tool_args.config = [temperature |-> 3, top_p |-> 8, num_ctx |-> 256,
                           context_window |-> NONE, keep_alive |-> 5]
    /\ tool_result = [k \in OptionKeys |->
                         CASE k = "temperature" -> 3 [] k = "top_p" -> 8
                           [] k = "num_ctx" -> 256 [] OTHER -> 5]

\* C31: _should_run_post_checks(results) is true iff some tool result is
\* successful and has a file_path in its metadata; a failed result with a
\* file_path and a successful one without do not count.
C31_PostChecksOnFileChanges ==
    tool_args.tool = "post_checks" =>
        /\ tool_result.raised = "none"
        /\ tool_result.value <=>
              \E i \in 1..Len(tool_args.results) :
                  /\ tool_args.results[i].success
                  /\ tool_args.results[i].file_path

\* C32: _maybe_compact_messages changes nothing (messages and
\* running_summary as they were) when the estimated size of the buffer is
\* at or below int(num_ctx * 4 * 0.7), num_ctx being
\* generation_params.num_ctx, else ollama.context_window, else 32768; and
\* nothing when the buffer holds at most 6 messages beyond the static ones.
C32_NoCompactionBelowThreshold ==
    pc = "inflight" =>
        LET num_ctx == IF config.num_ctx \notin {NONE, 0} THEN config.num_ctx
                       ELSE IF config.context_window # NONE
                            THEN config.context_window ELSE 32768
            before == bufAtCall.messages
        IN  (\/ _estimate_char_count(before) <= (num_ctx * 4 * 7) \div 10
             \/ Len(before) <= Len(bufAtCall.static) + 6)
            => /\ messages[caller] = before
               /\ running_summary[caller] = bufAtCall.running_summary

\* only ollama.context_window is set; the buffer was above the threshold
\* with 6 messages beyond the static one when the call was made, and the
\* call has left it alone
C32_Witness ==
    /\ pc = "inflight"
    /\ config = [num_ctx |-> NONE, context_window |-> 120]
    /\ Len(bufAtCall.messages) = Len(bufAtCall.static) + 6
    /\ _estimate_char_count(bufAtCall.messages) > 336
    /\ messages[caller] = bufAtCall.messages

\* C33: a configuration command with an invalid argument leaves the
\* configuration as it was: /mode with a value other than work or personal,
\* /model with a name that, after alias resolution, is not in the list of
\* installed models, /ctx with a non-integer or a value below 512, /temp
\* with a non-number or a value outside 0..1.5.
C33_InvalidArgumentChangesNothing ==
    [][LET cmd == tool_args'.tool
           args == tool_args'.args
           invalid ==
              CASE cmd = "mode" -> args \notin {"work", "personal"}
                [] cmd = "model" ->
                      resolve_model_alias(args) \notin tool_args'.installed
                [] cmd = "ctx" -> args \notin {"512", "1024"}
                [] OTHER -> args \notin {"0.3", "1.5"}
       IN  invalid => tool_result' = tool_result
      ]_vars

\* a result of a call of improve_self that succeeded
ImprovedAt(k) ==
    /\ k \in 1..Len(tool_results) /\ k \in 1..Len(tool_calls)
    /\ tool_calls[k].tool = "improve_self" /\ tool_results[k].success

\* C34: no tool other than improve_self returns a result whose metadata
\* has requires_restart true, and improve_self never sets it on a failed
\* result; the restart flag is raised only over a successful improve_self
\* result, and the restart path (save, then reload) is entered only with
\* the flag raised.
C34_OnlyImproveSelfRestarts ==
    [][/\ \A k \in 1..Len(tool_results') :
             tool_results'[k].metadata.requires_restart => ImprovedAt(k)'
       /\ (requires_restart' /\ ~requires_restart)
             => \E k \in 1..Len(tool_results) : ImprovedAt(k)
       /\ (pc' \in {"restart", "reloading"}) => requires_restart
      ]_vars

\* the restart flag is raised in a turn that ran improve_self with success
\* after another tool that succeeded
C34_Witness ==
    /\ requires_restart /\ pc = "call" /\ callKind = "followup"
    /\ Len(tool_results) = 2 /\ ImprovedAt(2)
    /\ tool_calls[1].tool = "bash" /\ tool_results[1].success

\* C35: read on a text file with no explicit limit returns at most 2000
\* lines, and it reports truncation (metadata.truncated true and the
\* notice in the output) exactly when lines after the returned range were
\* withheld, for every offset.
C35_TruncationReportedWhenWithheld ==
    (tool_args.tool = "read" /\ tool_args.limit = NONE) =>
        LET withheld == tool_result.selected.to < tool_args.total_lines
        IN  /\ tool_result.metadata.returned_lines <= MAX_LINES
            /\ tool_result.metadata.truncated <=> withheld
            /\ tool_result.notice <=> withheld

\* C36: right after a compaction that rewrites the buffer, the buffer is
\* the static messages, one summary message and the 6 protected messages
\* (its length is the number of static messages plus 7), and in every
\* reachable state the buffer of an instance holds at most one
\* 'Conversation so far (summarized)' message.
C36_OneSummaryAfterCompaction ==
    /\ (pc = "inflight" /\ messages[caller] # bufAtCall.messages) =>
          LET static_len == Len(static_system_messages[caller]) IN
          /\ Len(messages[caller]) = static_len + 7
          /\ SubSeq(messages[caller], 1, static_len)
                = static_system_messages[caller]
          /\ SummaryMessages(messages[caller]) = {static_len + 1}
          /\ LastN(messages[caller], 6) = LastN(bufAtCall.messages, 6)
    /\ \A s \in Slots : Cardinality(SummaryMessages(messages[s])) <= 1

\* a buffer that already began with a summary message was rewritten around
\* a new one
C36_Witness ==
    /\ pc = "inflight" /\ messages[caller] # bufAtCall.messages
    /\ Cardinality(SummaryMessages(bufAtCall.messages)) = 1
    /\ Cardinality(SummaryMessages(messages[caller])) = 1
    /\ Len(bufAtCall.messages) > Len(messages[caller])

\* C37: a successful backend call appends exactly two messages to the
\* buffer, the user message then the assistant reply, and increases the
\* query count by one; a failed call changes neither the query count nor
\* the recorded response entries; and in every reachable state the number
\* of recorded response entries equals the query count.
C37_QueriesMatchResponses ==
    /\ [](\A s \in Slots :
             session_metrics[s].responses = session_metrics[s].queries)
    /\ [][(pc = "inflight" /\ pc' # "inflight") =>
             LET before == messages[caller]
                 after == messages'[caller]
                 n == Len(before)
             IN  IF callOutcome' = "ok"
                 THEN /\ Len(after) = n + 2
                      /\ SubSeq(after, 1, n) = before
                      /\ after[n + 1].role = "user"
                      /\ after[n + 1].content = user_message.content
                      /\ after[n + 2].role = "assistant"
                      /\ after[n + 2].content = response'.content
                      /\ session_metrics'[caller].queries
                            = session_metrics[caller].queries + 1
                 ELSE session_metrics' = session_metrics
         ]_vars

\* the follow-up call of a turn succeeded after the first: two queries,
\* two response entries, four messages after the static ones
C37_Witness ==
    /\ callOutcome = "ok" /\ callKind = "followup" /\ pc = "display"
    /\ session_metrics[caller].queries = 2
    /\ session_metrics[caller].responses = 2
    /\ Len(messages[caller]) = Len(static_system_messages[caller]) + 4

C39_CompactorBudgetsSentWindow ==
    pc = "inflight" =>
        /\ "num_ctx" \in DOMAIN CallOptions(config)
        /\ CallOptions(config).num_ctx = CompactNumCtx(config)

\* role and content of the messages of a buffer
Dicts(msgs) ==
    [i \in 1..Len(msgs) |-> [role |-> msgs[i].role, content |-> msgs[i].content]]

\* C40: _maybe_compact_messages is idempotent: called a second time with
\* no message appended in between (as when a backend call fails and the
\* next call compacts again), it leaves messages and running_summary
\* exactly as the first call left them.
C40_CompactionIsIdempotent ==
    pc = "inflight" =>
        LET again == _maybe_compact_messages(messages[caller],
                         static_system_messages[caller],
                         running_summary[caller], config, nextId)
        IN  /\ Dicts(again.messages) = Dicts(messages[caller])
            /\ again.running_summary = running_summary[caller]

====
